---- MODULE Spec2Model ----
(***************************************************************************)
(* Digital Twin scheduler: the /plan, /observe and /plan/<id>/verify        *)
(* handlers of dt/api.py, the offline path of experiments/dt_client.py,     *)
(* the job parser of dt/jobs.py and the resilient and CVaR placement        *)
(* policies of dt/policy/.                                                  *)
(*                                                                          *)
(* A plan request is a process: it parses the job, then runs the policy's   *)
(* stage loop one stage per step (each step is one list_nodes() read of     *)
(* the state store), then scores, answers and submits.  Availability        *)
(* events (/observe) interleave freely with the steps of a request.         *)
(*                                                                          *)
(* Numbers are exact integers: utilisation in percent, scores in permille,  *)
(* latencies in milliseconds, CVaR costs as fractions num/den.              *)
(***************************************************************************)
EXTENDS Integers, Sequences, FiniteSets, TLC

(***************************************************************************)
(* Bounds of the model.                                                     *)
(***************************************************************************)
\* longest stage list of a submitted job spec
MaxStages == 2
\* noise samples drawn per candidate by the CVaR sampler (the code's default is 16)
NumRuns == 2
\* longest list of cost samples the tail estimate is computed for on its own
MaxSamples == 3

(***************************************************************************)
(* The seeded cluster (dt.seed and dt.state are not part of the sources;    *)
(* the node attributes follow section 3 of the specification).              *)
(***************************************************************************)
Nodes == {"n1", "n2", "n3"}

\* list_nodes() enumeration order
NodeOrder == <<"n1", "n2", "n3">>

NodeInfo ==
  [n \in Nodes |->
     CASE n = "n1" -> [arch |-> "amd64", gpu_vram_gb |-> 0,  allocatable_cpu |-> 4,
                       allocatable_mem_gb |-> 4, cpu_util |-> 10, mem_util |-> 10,
                       cluster |-> "dc-core"]
       [] n = "n2" -> [arch |-> "amd64", gpu_vram_gb |-> 16, allocatable_cpu |-> 2,
                       allocatable_mem_gb |-> 4, cpu_util |-> 50, mem_util |-> 40,
                       cluster |-> "edge-microdc"]
       [] OTHER    -> [arch |-> "arm64", gpu_vram_gb |-> 0,  allocatable_cpu |-> 4,
                       allocatable_mem_gb |-> 4, cpu_util |-> 10, mem_util |-> 10,
                       cluster |-> "dc-core"]]

\* a node name no seeded node has
GhostNode == "ghost"

(***************************************************************************)
(* Raw job specs as they arrive in the request body.  A raw numeric field   *)
(* is the text int() is applied to; "" stands for an absent/None/empty      *)
(* field.                                                                   *)
(***************************************************************************)
NoValue == ""

\* int(x) of jobs.py: the texts of the model that int() accepts
IntTexts == {"0", "1", "3", "16", "100"}

IntParse(t) ==
  CASE t = "0" -> 0
    [] t = "1" -> 1
    [] t = "3" -> 3
    [] t = "16" -> 16
    [] OTHER -> 100

\* a first stage without special needs, and a second stage that needs a GPU
PlainStage ==
  [id |-> "s1", cpu |-> "1", mem_gb |-> "1", duration_ms |-> "100", gpu_vram_gb |-> "0",
   formats |-> <<"native", "wasm">>, predecessor |-> NoValue]

GpuStage ==
  [id |-> "s2", cpu |-> "1", mem_gb |-> "1", duration_ms |-> "100", gpu_vram_gb |-> "16",
   formats |-> <<"native", "wasm">>, predecessor |-> "s1"]

\* stage specs a request may carry
StagePool ==
  { PlainStage,
    [id |-> "s1", cpu |-> "1", mem_gb |-> "1", duration_ms |-> "100", gpu_vram_gb |-> "0",
     formats |-> <<"native">>, predecessor |-> NoValue],
    GpuStage,
    [id |-> "s2", cpu |-> "3", mem_gb |-> "1", duration_ms |-> "100", gpu_vram_gb |-> "0",
     formats |-> <<"wasm", "native">>, predecessor |-> "s1"],
    [id |-> "s2", cpu |-> "x", mem_gb |-> "1", duration_ms |-> "100", gpu_vram_gb |-> "0",
     formats |-> <<"native", "wasm">>, predecessor |-> NoValue],
    [id |-> NoValue, cpu |-> "1", mem_gb |-> "1", duration_ms |-> "100", gpu_vram_gb |-> "0",
     formats |-> <<"native", "wasm">>, predecessor |-> NoValue] }

StageLists == UNION { [1..k -> StagePool] : k \in 0..MaxStages }

\* the value of body["job"]: absent (falsy), a non-object, or an object
MissingJob == [kind |-> "missing"]
NonObjectJob == [kind |-> "nonobject"]

ObjectJobs ==
  { [kind |-> "object", name |-> "job", origin |-> NoValue, stages |-> st] :
      st \in StageLists }
  \cup
  { [kind |-> "object", name |-> NoValue, origin |-> NoValue, stages |-> st] :
      st \in { s \in StageLists : Len(s) <= 1 } }
  \cup
  { [kind |-> "object", name |-> "job", origin |-> "edge-microdc", stages |-> st] :
      st \in { s \in StageLists : Len(s) = 1 } }

JobSpecs == {MissingJob, NonObjectJob} \cup ObjectJobs

(***************************************************************************)
(* dt/jobs.py: parse_job_spec.                                              *)
(***************************************************************************)
\* the first thing that fails while one stage spec is converted: _require("id")
\* comes first, then the int() conversions of the compute block
StageParseError(st) ==
  IF st.id = NoValue THEN "JobSpecError"
  ELSE IF \/ st.cpu \notin IntTexts
          \/ st.mem_gb \notin IntTexts
          \/ st.duration_ms \notin IntTexts
          \/ st.gpu_vram_gb \notin IntTexts
       THEN "ValueError"
       ELSE "none"

ParseStage(st) ==
  [id |-> st.id,
   compute |-> [cpu |-> IntParse(st.cpu), mem_gb |-> IntParse(st.mem_gb),
                duration_ms |-> IntParse(st.duration_ms),
                gpu_vram_gb |-> IntParse(st.gpu_vram_gb)],
   constraints |-> [arch |-> <<"amd64">>, formats |-> st.formats],
   predecessor |-> st.predecessor]

\* index of the first stage spec whose conversion fails, 0 when none does
FirstBadStage(stages) ==
  IF \E k \in 1..Len(stages) : StageParseError(stages[k]) # "none"
  THEN CHOOSE k \in 1..Len(stages) :
         /\ StageParseError(stages[k]) # "none"
         /\ \A j \in 1..(k - 1) : StageParseError(stages[j]) = "none"
  ELSE 0

\* the outcome of parse_job_spec: a Job, or the exception that leaves it
parse_job_spec(js) ==
  IF js.kind # "object" THEN [kind |-> "JobSpecError", msg |-> "job spec must be an object"]
  ELSE IF Len(js.stages) = 0
       THEN [kind |-> "JobSpecError", msg |-> "job spec must include at least one stage"]
  ELSE IF js.name = NoValue
       THEN [kind |-> "JobSpecError", msg |-> "missing required field: name"]
  ELSE IF FirstBadStage(js.stages) # 0
       THEN IF StageParseError(js.stages[FirstBadStage(js.stages)]) = "JobSpecError"
            THEN [kind |-> "JobSpecError", msg |-> "missing required field: id"]
            ELSE [kind |-> "ValueError", msg |-> "invalid literal for int()"]
  ELSE [kind |-> "Job",
        job |-> [name |-> js.name, deadline_ms |-> 60000,
                 stages |-> [k \in 1..Len(js.stages) |-> ParseStage(js.stages[k])],
                 origin |-> js.origin]]

(***************************************************************************)
(* Small helpers.                                                           *)
(***************************************************************************)
Range(s) == { s[k] : k \in 1..Len(s) }

Max2(a, b) == IF a >= b THEN a ELSE b

Min2(a, b) == IF a <= b THEN a ELSE b

RECURSIVE SumSeq(_)
SumSeq(s) == IF Len(s) = 0 THEN 0 ELSE s[1] + SumSeq(Tail(s))

\* the nodes of a set in list_nodes() order
InOrder(S) == SelectSeq(NodeOrder, LAMBDA n : n \in S)

(***************************************************************************)
(* Collaborators whose sources are not in the repository snapshot           *)
(* (dt/predict.py, dt/failures/resiliency_scorer.py, dt/cluster_manager.py):*)
(* modelled from sections 4.2 - 4.4 of the specification.                   *)
(***************************************************************************)
NoFeasibleFormat == "NoFeasibleFormat"

\* choose_exec_format: native when the arch matches and native is allowed,
\* else wasm when allowed, else no format is viable
choose_exec_format(stage, n) ==
  IF /\ NodeInfo[n].arch \in Range(stage.constraints.arch)
     /\ "native" \in Range(stage.constraints.formats)
  THEN "native"
  ELSE IF "wasm" \in Range(stage.constraints.formats) THEN "wasm"
  ELSE NoFeasibleFormat

\* format overhead in percent
FormatOverhead(fmt) == IF fmt = "native" THEN 100 ELSE 120

\* compute_stage_latency_ms: duration x congestion x format overhead
compute_stage_latency_ms(stage, n, fmt) ==
  (stage.compute.duration_ms
     * (100 + Max2(NodeInfo[n].cpu_util, NodeInfo[n].mem_util))
     * FormatOverhead(fmt)) \div 10000

\* the latency matrix: symmetric, zero on the diagonal, 0 for an unknown cluster
get_latency_between(a, b) ==
  IF {a, b} = {"dc-core", "edge-microdc"} THEN 40 ELSE 0

\* compute_network_delay_ms: same node 0, same cluster a floor, else the matrix
compute_network_delay_ms(a, b) ==
  IF a = b THEN 0
  ELSE IF NodeInfo[a].cluster = NodeInfo[b].cluster THEN 1
  ELSE get_latency_between(NodeInfo[a].cluster, NodeInfo[b].cluster)

\* compute_node_score, in percent; an unknown node scores 0
compute_node_score(n) ==
  IF n \notin Nodes THEN 0
  ELSE 100 - Max2(NodeInfo[n].cpu_util, NodeInfo[n].mem_util)

\* _compute_origin_latency (both policies): 0 without an origin or without a
\* cluster manager, else the matrix entry from the origin's cluster
compute_origin_latency(job, n, cm) ==
  IF job.origin = NoValue \/ ~cm THEN 0
  ELSE get_latency_between(job.origin, NodeInfo[n].cluster)

\* score_plan(job, placements).latency_ms: every placed stage's latency, the
\* network delay from a placed predecessor, and the origin delay of a placed
\* first stage; stages without a placement contribute nothing
StageTerm(job, pl, k, cm) ==
  LET st == job.stages[k]
  IN IF st.id \notin DOMAIN pl THEN 0
     ELSE compute_stage_latency_ms(st, pl[st.id].node_name, pl[st.id].exec_format)
          + (IF st.predecessor # NoValue /\ st.predecessor \in DOMAIN pl
             THEN compute_network_delay_ms(pl[st.predecessor].node_name, pl[st.id].node_name)
             ELSE 0)
          + (IF k = 1 THEN compute_origin_latency(job, pl[st.id].node_name, cm) ELSE 0)

score_plan_latency(job, pl, cm) ==
  SumSeq([k \in 1..Len(job.stages) |-> StageTerm(job, pl, k, cm)])

(***************************************************************************)
(* dt/policy/resilient.py.                                                  *)
(***************************************************************************)
\* weights of the composite, in tenths (0.3, 0.5, 0.2)
CapacityWeight == 3
ResiliencyWeight == 5
UtilizationWeight == 2

\* mutant: the availability test of _candidate_nodes left out
Resilient_candidates_any_availability(stage, av) ==
  InOrder({ n \in Nodes :
              /\ ~(stage.compute.gpu_vram_gb > 0
                   /\ NodeInfo[n].gpu_vram_gb < stage.compute.gpu_vram_gb)
              /\ ~(NodeInfo[n].allocatable_cpu < stage.compute.cpu)
              /\ ~(NodeInfo[n].allocatable_mem_gb < stage.compute.mem_gb) })

\* mutant: the allocatable cpu/memory tests of _candidate_nodes left out
Resilient_candidates_no_gate(stage, av) ==
  InOrder({ n \in Nodes :
              /\ av[n]
              /\ ~(stage.compute.gpu_vram_gb > 0
                   /\ NodeInfo[n].gpu_vram_gb < stage.compute.gpu_vram_gb) })

\* mutant: the allocatable memory test of _candidate_nodes left out
Resilient_candidates_no_memory_gate(stage, av) ==
  InOrder({ n \in Nodes :
              /\ av[n]
              /\ ~(stage.compute.gpu_vram_gb > 0
                   /\ NodeInfo[n].gpu_vram_gb < stage.compute.gpu_vram_gb)
              /\ ~(NodeInfo[n].allocatable_cpu < stage.compute.cpu) })

\* _candidate_nodes: av is the availability list_nodes() returns at this call
Resilient_candidate_nodes(stage, av) ==
  InOrder({ n \in Nodes :
              /\ av[n]
              /\ ~(stage.compute.gpu_vram_gb > 0
                   /\ NodeInfo[n].gpu_vram_gb < stage.compute.gpu_vram_gb)
              /\ ~(NodeInfo[n].allocatable_cpu < stage.compute.cpu)
              /\ ~(NodeInfo[n].allocatable_mem_gb < stage.compute.mem_gb) })

\* _score_capacity_fit, in percent
score_capacity_fit(stage, n) ==
  IF NodeInfo[n].allocatable_cpu <= 0 \/ NodeInfo[n].allocatable_mem_gb <= 0 THEN 0
  ELSE Max2(0, Min2(100 - (100 * stage.compute.cpu) \div NodeInfo[n].allocatable_cpu,
                    100 - (100 * stage.compute.mem_gb) \div NodeInfo[n].allocatable_mem_gb))

\* _utilization_score, in percent
utilization_score(n) ==
  Max2(0, 100 - Max2(NodeInfo[n].cpu_util, NodeInfo[n].mem_util))

\* mutant: the network delay from the predecessor's node left out
Resilient_latency_no_predecessor(job, stage, n, fmt, prev, cm) ==
  compute_stage_latency_ms(stage, n, fmt)
  + (IF stage.predecessor = NoValue /\ job.origin # NoValue
     THEN compute_origin_latency(job, n, cm)
     ELSE 0)

\* mutant: the origin latency is added for every stage of a job with an origin
Resilient_latency_origin_always(job, stage, n, fmt, prev, cm) ==
  compute_stage_latency_ms(stage, n, fmt)
  + (IF stage.predecessor # NoValue /\ stage.predecessor \in DOMAIN prev
     THEN compute_network_delay_ms(prev[stage.predecessor], n)
     ELSE 0)
  + (IF job.origin # NoValue THEN compute_origin_latency(job, n, cm) ELSE 0)

\* latency_ms of one candidate (place, lines 104-112): the stage latency, the
\* network delay from the node recorded for the predecessor, the origin
\* latency of a stage without predecessor
Resilient_latency_ms(job, stage, n, fmt, prev, cm) ==
  compute_stage_latency_ms(stage, n, fmt)
  + (IF stage.predecessor # NoValue /\ stage.predecessor \in DOMAIN prev
     THEN compute_network_delay_ms(prev[stage.predecessor], n)
     ELSE 0)
  + (IF stage.predecessor = NoValue /\ job.origin # NoValue
     THEN compute_origin_latency(job, n, cm)
     ELSE 0)

\* composite score of one candidate, times 1000
Resilient_composite(job, stage, n, fmt, prev, cm) ==
  CapacityWeight * score_capacity_fit(stage, n)
  + ResiliencyWeight * compute_node_score(n)
  + UtilizationWeight * utilization_score(n)
  - Resilient_latency_ms(job, stage, n, fmt, prev, cm)

\* mutant: the first candidate is taken, whatever the scores
Resilient_scan_first_candidate(job, stage, cands, prev, cm, k) ==
  IF k = 0 THEN [node_name |-> NoValue, score |-> 0, exec_format |-> "native"]
  ELSE [node_name |-> cands[1],
        score |-> Resilient_composite(job, stage, cands[1],
                                      choose_exec_format(stage, cands[1]), prev, cm),
        exec_format |-> choose_exec_format(stage, cands[1])]

\* the candidate loop: the best of the first k candidates; a later candidate
\* replaces the best only with a strictly greater composite
RECURSIVE Resilient_scan(_, _, _, _, _, _)
Resilient_scan(job, stage, cands, prev, cm, k) ==
  IF k = 0 THEN [node_name |-> NoValue, score |-> 0, exec_format |-> "native"]
  ELSE LET b == Resilient_scan(job, stage, cands, prev, cm, k - 1)
           fmt == choose_exec_format(stage, cands[k])
           sc == Resilient_composite(job, stage, cands[k], fmt, prev, cm)
       IN IF b.node_name = NoValue \/ sc > b.score
          THEN [node_name |-> cands[k], score |-> sc, exec_format |-> fmt]
          ELSE b

(***************************************************************************)
(* dt/policy/cvar.py.                                                       *)
(***************************************************************************)
\* alpha = 0.95 in percent, risk_weight = 0.6 in tenths
AlphaPct == 95
RiskWeightTenths == 6

\* the factors (in tenths) a log-normal noise sample takes in the model
NoiseSet == {9, 11}

\* the noise draws of one _sample_cost call.  The estimate depends on the
\* samples only through their sorted order and their sum, so the draws are
\* enumerated up to permutation (ascending)
NoiseDraws ==
  { d \in [1..NumRuns -> NoiseSet] : \A i \in 1..(NumRuns - 1) : d[i] <= d[i + 1] }

\* mutant: the CVaR policy applies the allocatable cpu/memory gate too
Cvar_candidates_gated(stage, av) ==
  InOrder({ n \in Nodes :
              /\ av[n]
              /\ ~(NodeInfo[n].allocatable_cpu < stage.compute.cpu)
              /\ ~(NodeInfo[n].allocatable_mem_gb < stage.compute.mem_gb) })

\* _candidate_nodes
Cvar_candidate_nodes(stage, av) == InOrder({ n \in Nodes : av[n] })

\* mutant: the GPU test of the loop left out
Cvar_gpu_unchecked(stage, n) == TRUE

\* the candidates that pass the GPU test inside the loop of place
Cvar_gpu_ok(stage, n) ==
  ~(stage.compute.gpu_vram_gb > 0 /\ NodeInfo[n].gpu_vram_gb < stage.compute.gpu_vram_gb)

\* s with x inserted, s ascending
InsertSorted(x, s) ==
  LET pos == Cardinality({ i \in 1..Len(s) : s[i] <= x })
  IN SubSeq(s, 1, pos) \o <<x>> \o SubSeq(s, pos + 1, Len(s))

RECURSIVE SortedSamples(_)
SortedSamples(s) == IF Len(s) = 0 THEN <<>> ELSE InsertSorted(s[1], SortedSamples(Tail(s)))

\* mutant: the interpolation starts from the upper order statistic
Quantile_from_upper(samples, alphaPct) ==
  LET srt == SortedSamples(samples)
      n == Len(samples)
      lo == ((n - 1) * alphaPct) \div 100
      rem == ((n - 1) * alphaPct) % 100
      hi == Min2(lo + 1, n - 1)
  IN 100 * srt[hi + 1] + rem * (srt[hi + 1] - srt[lo + 1])

\* 100 x np.quantile(samples, alpha): linear interpolation between the order
\* statistics around position (n - 1) * alpha
QuantileTimes100(samples, alphaPct) ==
  LET srt == SortedSamples(samples)
      n == Len(samples)
      lo == ((n - 1) * alphaPct) \div 100
      rem == ((n - 1) * alphaPct) % 100
      hi == Min2(lo + 1, n - 1)
  IN 100 * srt[lo + 1] + rem * (srt[hi + 1] - srt[lo + 1])

\* mutant: the tail holds only the samples strictly above the quantile
TailMean_strictly_above(samples, alphaPct) ==
  LET q == QuantileTimes100(samples, alphaPct)
      tail == SelectSeq(samples, LAMBDA x : 100 * x > q)
  IN IF Len(tail) > 0 THEN [num |-> SumSeq(tail), den |-> Len(tail), tail |-> Len(tail)]
     ELSE [num |-> q, den |-> 100, tail |-> 0]

\* the tail mean of _sample_cost as a fraction: mean of the samples >= q, or q
\* itself for an empty tail; tail is the number of samples in the tail
TailMean(samples, alphaPct) ==
  LET q == QuantileTimes100(samples, alphaPct)
      tail == SelectSeq(samples, LAMBDA x : 100 * x >= q)
  IN IF Len(tail) > 0 THEN [num |-> SumSeq(tail), den |-> Len(tail), tail |-> Len(tail)]
     ELSE [num |-> q, den |-> 100, tail |-> 0]

\* _sample_cost: one sample per run, (latency + origin latency) x noise; the
\* result is a fraction in tenths of a millisecond (the noise is in tenths)
sample_cost(job, pl, noise, cm) ==
  LET first == job.stages[1]
      origin_lat == IF job.origin # NoValue /\ first.id \in DOMAIN pl
                    THEN compute_origin_latency(job, pl[first.id].node_name, cm)
                    ELSE 0
      latency_ms == score_plan_latency(job, pl, cm)
      samples == [r \in 1..Len(noise) |-> (latency_ms + origin_lat) * noise[r]]
      tm == TailMean(samples, AlphaPct)
  IN tm

\* mutant: the tail cost is compared as it is, without the risk adjustment
adjusted_cvar_unweighted(cvar, n) == cvar

\* adjusted_cvar = cvar * (1 + risk_weight * (1 - resiliency)), times 1000
adjusted_cvar(cvar, n) ==
  [num |-> cvar.num * (1000 + RiskWeightTenths * (100 - compute_node_score(n))),
   den |-> cvar.den]

FracLess(a, b) == a.num * b.den < b.num * a.den

\* the tentative plan of one candidate: the placements so far plus the candidate
candidate_plan(pl, stage, n) ==
  (stage.id :> [stage_id |-> stage.id, node_name |-> n,
                exec_format |-> choose_exec_format(stage, n)]) @@ pl

\* np.random, the process-wide generator _sample_cost draws from.  Its state
\* is a position in a fixed stream of factors; Entropy is the state of a
\* generator nobody seeded, whose draws are unknown.  np.random.seed(s) puts
\* it at position s.
Entropy == 0
NoSeed == 0
Seeds == {1, 3}
NoiseStream == <<9, 9, 9, 9, 9, 9, 11>>

\* the k-th draw from position g on, and the position after k draws
StreamAt(g, k) == NoiseStream[((g - 1 + k - 1) % Len(NoiseStream)) + 1]

StreamAfter(g, k) == ((g - 1 + k) % Len(NoiseStream)) + 1

\* the candidates _sample_cost is called for, in order: those that pass the
\* GPU test, up to the first one choose_exec_format fails on
RECURSIVE SampledCands(_, _, _)
SampledCands(stage, cands, k) ==
  IF k > Len(cands) THEN <<>>
  ELSE IF ~Cvar_gpu_ok(stage, cands[k]) THEN SampledCands(stage, cands, k + 1)
  ELSE IF choose_exec_format(stage, cands[k]) = NoFeasibleFormat THEN <<>>
  ELSE <<cands[k]>> \o SampledCands(stage, cands, k + 1)

\* position of n in the sequence s (0 when absent)
IndexOf(s, n) ==
  IF \E i \in 1..Len(s) : s[i] = n THEN CHOOSE i \in 1..Len(s) : s[i] = n ELSE 0

\* the entry of a candidate that is not sampled and so draws nothing
NoDraws == [r \in 1..NumRuns |-> 9]

\* the noise draws the candidates of one stage can get from generator state g:
\* per sampled candidate anything from an unseeded generator, else NumRuns
\* consecutive draws of the stream; a candidate that is not sampled draws
\* nothing
GeneratorDraws(g, stage, cands) ==
  LET sc == SampledCands(stage, cands, 1)
  IN IF g = Entropy
     THEN { f \in [Range(cands) -> NoiseDraws] :
              \A n \in Range(cands) : IndexOf(sc, n) = 0 => f[n] = NoDraws }
     ELSE { [n \in Range(cands) |->
               IF IndexOf(sc, n) = 0 THEN NoDraws
               ELSE SortedSamples([r \in 1..NumRuns |->
                                     StreamAt(g, (IndexOf(sc, n) - 1) * NumRuns + r)])] }

\* the generator state after the stage: one draw per run and sampled candidate
GeneratorAfter(g, stage, cands) ==
  IF g = Entropy THEN Entropy
  ELSE StreamAfter(g, NumRuns * Len(SampledCands(stage, cands, 1)))

\* mutant: a candidate that equals the best replaces it
RECURSIVE Cvar_scan_last_tied(_, _, _, _, _, _, _)
Cvar_scan_last_tied(job, stage, cands, pl, noise, cm, k) ==
  IF k = 0 THEN [node_name |-> NoValue, cost |-> [num |-> 0, den |-> 1],
                 exec_format |-> "native"]
  ELSE LET b == Cvar_scan_last_tied(job, stage, cands, pl, noise, cm, k - 1)
           n == cands[k]
           adj == adjusted_cvar(sample_cost(job, candidate_plan(pl, stage, n), noise[n], cm), n)
       IN IF ~Cvar_gpu_ok(stage, n) THEN b
          ELSE IF b.node_name = NoValue \/ ~FracLess(b.cost, adj)
               THEN [node_name |-> n, cost |-> adj,
                     exec_format |-> choose_exec_format(stage, n)]
               ELSE b

\* the candidate loop of place: the best of the first k candidates; a later
\* candidate replaces the best only with a strictly smaller adjusted cost
RECURSIVE Cvar_scan(_, _, _, _, _, _, _)
Cvar_scan(job, stage, cands, pl, noise, cm, k) ==
  IF k = 0 THEN [node_name |-> NoValue, cost |-> [num |-> 0, den |-> 1],
                 exec_format |-> "native"]
  ELSE LET b == Cvar_scan(job, stage, cands, pl, noise, cm, k - 1)
           n == cands[k]
           adj == adjusted_cvar(sample_cost(job, candidate_plan(pl, stage, n), noise[n], cm), n)
       IN IF ~Cvar_gpu_ok(stage, n) THEN b
          ELSE IF b.node_name = NoValue \/ FracLess(adj, b.cost)
               THEN [node_name |-> n, cost |-> adj,
                     exec_format |-> choose_exec_format(stage, n)]
               ELSE b

(***************************************************************************)
(* The state.                                                               *)
(***************************************************************************)
VARIABLES
  avail,            \* DTState: node name -> Node.available
  cluster_manager,  \* whether a ClusterManager was constructed (app.py)
  pc,               \* position of the plan request: "idle", "place", "done"
  req,              \* the request body: job, strategy, dry_run
  idx,              \* place: index of the next stage of job.stages
  placements,       \* place: stage id -> PlacementDecision
  prev_node_for,    \* ResilientPolicy.place: stage id -> chosen node
  resp,             \* the response of the plan request
  submitted,        \* the actuator.submit_plan call of the plan request
  observe_resp,     \* the response of the last /observe request
  via,              \* "api": the Flask app; "offline": DTClient's in-process fallback
  jobs,             \* DTState job ledger (add_job): the names of the stored jobs
  client_plans,     \* DTClient._plans: plan id -> Plan
  observed,         \* DTState observed metrics: plan id -> ObservedMetrics
  record_resp,      \* the result of the last record_observed call
  verify_resp,      \* the result of the last verification query
  first_recorded,   \* history: the metrics of the first successful record_observed
  np_random,        \* state of numpy's process-wide generator (Entropy: never seeded)
  caller_seed,      \* the seed the caller last gave to np.random.seed (NoSeed: none)
  seed_runs,        \* history: the CVaR place calls that ran under a caller's seed
  call,             \* a call of a helper on its own: its arguments and its result
  snap,             \* history: the availability the last list_nodes() returned
  downAll,          \* history: nodes unavailable ever since the request began
  scored,           \* history: what the last stage step scored
  writer            \* history: stage id -> index of the stage its decision is for

vars == <<avail, cluster_manager, pc, req, idx, placements, prev_node_for, resp,
          submitted, observe_resp, via, jobs, client_plans, observed, record_resp,
          verify_resp, first_recorded, np_random, caller_seed, seed_runs, call,
          snap, downAll, scored, writer>>

\* the variables of the plan store and of the observation store, and the
\* helper call, which no request touches
storeVars == <<via, jobs, client_plans, observed, record_resp, verify_resp, first_recorded,
               call>>

\* the process-wide random generator and what the caller did with it
rngVars == <<np_random, caller_seed, seed_runs>>

Strategies == {"resilient", "cvar"}

\* plan ids uuid4 may produce
PlanIds == {"plan-a", "plan-b"}

NoReq == [job |-> MissingJob, strategy |-> "resilient", dry_run |-> TRUE]

\* status is the HTTP status of the api; raised is the exception that leaves
\* DTClient.plan in offline mode
NoResp == [status |-> 0, raised |-> NoValue, error |-> NoValue, stages |-> <<>>,
           plan_id |-> NoValue, placements |-> <<>>, predicted_latency_ms |-> 0,
           shadow_plan |-> <<>>]

NoSubmit == [called |-> FALSE, plan_id |-> NoValue, placements |-> <<>>, outcome |-> "none"]

NoScore == [index |-> 0, cands |-> <<>>, latency |-> <<>>, tentative |-> <<>>]

ErrorResp(status, msg, stage_ids) ==
  [NoResp EXCEPT !.status = status, !.error = msg, !.stages = stage_ids]

RaisedResp(exception, msg) ==
  [NoResp EXCEPT !.raised = exception, !.error = msg]

\* the Job of the request in flight
Job == parse_job_spec(req.job).job

StageIds(job) == [k \in 1..Len(job.stages) |-> job.stages[k].id]

\* f"{sid}_backup"
BackupKey(sid) == sid \o "_backup"

\* the shadow_plan of the response: one key per placement, holding its node
ShadowPlan(pl) ==
  [key \in { BackupKey(sid) : sid \in DOMAIN pl } |->
     pl[CHOOSE sid \in DOMAIN pl : BackupKey(sid) = key].node_name]

\* the response dictionary of a computed plan (api.py lines 64-80)
PlanResp(job, pl, plan_id, cm) ==
  [status |-> 200, raised |-> NoValue, error |-> NoValue, stages |-> <<>>,
   plan_id |-> plan_id, placements |-> pl,
   predicted_latency_ms |-> score_plan_latency(job, pl, cm),
   shadow_plan |-> ShadowPlan(pl)]

\* no ObservedMetrics stored
NoMetrics == [plan_id |-> NoValue]

NoVerify == [status |-> 0, found |-> FALSE, observed |-> <<>>, note |-> NoValue]

\* the state every deployment starts from, the store seeded and empty of plans
InitCommon ==
  /\ avail = [n \in Nodes |-> TRUE]
  /\ jobs = {}
  /\ client_plans = <<>>
  /\ observed = [p \in PlanIds |-> NoMetrics]
  /\ first_recorded = [p \in PlanIds |-> NoMetrics]
  /\ record_resp = "none"
  /\ verify_resp = NoVerify
  /\ np_random = Entropy
  /\ caller_seed = NoSeed
  /\ seed_runs = {}
  /\ pc = "idle"
  /\ req = NoReq
  /\ idx = 0
  /\ placements = <<>>
  /\ prev_node_for = <<>>
  /\ resp = NoResp
  /\ submitted = NoSubmit
  /\ observe_resp = [status |-> 0, error |-> NoValue]
  /\ snap = [n \in Nodes |-> TRUE]
  /\ downAll = {}
  /\ scored = NoScore
  /\ writer = <<>>

\* no helper call in progress
NoCall == [fn |-> NoValue]

\* app.py: the Flask app over a seeded store, the latency matrix loaded
Init ==
  /\ InitCommon
  /\ call = NoCall
  /\ via = "api"
  /\ cluster_manager = TRUE

(***************************************************************************)
(* POST /plan, up to the call of policy.place (api.py lines 39-61), and     *)
(* DTClient.plan in offline mode up to the same call (lines 108-112).       *)
(***************************************************************************)
\* the answer to a request whose job spec does not parse: the api answers a
\* falsy job and a JobSpecError with 400 and lets any other exception become
\* a 500; the offline client lets the exception of parse_job_spec through
request_rejected(v, js) ==
  IF v = "api"
  THEN IF js.kind = "missing" THEN ErrorResp(400, "missing job spec", <<>>)
       ELSE IF parse_job_spec(js).kind = "JobSpecError"
            THEN ErrorResp(400, parse_job_spec(js).msg, <<>>)
            ELSE ErrorResp(500, "Internal Server Error", <<>>)
  ELSE RaisedResp(parse_job_spec(js).kind, parse_job_spec(js).msg)

PlanRequest(js, strategy, dry_run) ==
  /\ pc = "idle"
  /\ req' = [job |-> js, strategy |-> strategy, dry_run |-> dry_run]
  /\ idx' = 1
  /\ placements' = <<>>
  /\ prev_node_for' = <<>>
  /\ writer' = <<>>
  /\ submitted' = NoSubmit
  /\ snap' = avail
  /\ scored' = NoScore
  /\ downAll' = IF parse_job_spec(js).kind = "Job" THEN { n \in Nodes : ~avail[n] } ELSE {}
  /\ IF parse_job_spec(js).kind = "Job"
     THEN /\ resp' = NoResp
          /\ pc' = "place"
     ELSE /\ resp' = request_rejected(via, js)
          /\ pc' = "done"
  /\ UNCHANGED <<avail, cluster_manager, observe_resp, storeVars, rngVars>>

(***************************************************************************)
(* One iteration of "for stage in job.stages" of place.                     *)
(***************************************************************************)
Decision(stage, b) ==
  [stage_id |-> stage.id, node_name |-> b.node_name, exec_format |-> b.exec_format]

\* the exception leaves place and the handler: the request ends in an error
PlaceRaises(msg) ==
  /\ pc' = "done"
  /\ resp' = IF via = "api" THEN ErrorResp(500, msg, <<>>) ELSE RaisedResp(msg, msg)
  /\ UNCHANGED <<idx, placements, prev_node_for, writer>>

\* mutant: the policy takes the node it chose out of the candidates
availability_after_stage_reserving(av, node_name) ==
  IF node_name \in Nodes THEN [av EXCEPT ![node_name] = FALSE] ELSE av

\* the store after one stage of place: the policies call only readers of the
\* store (list_nodes, get_cluster, get_node), so it is the store before
availability_after_stage(av, node_name) == av

ResilientStage ==
  LET job == Job
      stage == job.stages[idx]
      cands == Resilient_candidate_nodes(stage, avail)
      b == Resilient_scan(job, stage, cands, prev_node_for, cluster_manager, Len(cands))
  IN /\ pc = "place" /\ idx <= Len(job.stages) /\ req.strategy = "resilient"
     /\ snap' = avail
     /\ scored' = [index |-> idx, cands |-> cands,
                   latency |-> [n \in Range(cands) |->
                      Resilient_latency_ms(job, stage, n, choose_exec_format(stage, n),
                                           prev_node_for, cluster_manager)],
                   tentative |-> <<>>]
     /\ IF \E n \in Range(cands) : choose_exec_format(stage, n) = NoFeasibleFormat
        THEN PlaceRaises(NoFeasibleFormat)
        ELSE /\ idx' = idx + 1
             /\ IF b.node_name = NoValue
                THEN UNCHANGED <<placements, prev_node_for, writer>>
                ELSE /\ placements' = (stage.id :> Decision(stage, b)) @@ placements
                     /\ prev_node_for' = (stage.id :> b.node_name) @@ prev_node_for
                     /\ writer' = (stage.id :> idx) @@ writer
             /\ UNCHANGED <<pc, resp>>
     /\ avail' = availability_after_stage(avail, b.node_name)
     /\ UNCHANGED <<cluster_manager, req, submitted, observe_resp, downAll,
                    storeVars, rngVars>>

\* one stage of RiskAwareCvarPolicy.place, the call record left open
CvarStep(noise) ==
  LET job == Job
      stage == job.stages[idx]
      cands == Cvar_candidate_nodes(stage, avail)
      b == Cvar_scan(job, stage, cands, placements, noise, cluster_manager, Len(cands))
  IN /\ pc = "place" /\ idx <= Len(job.stages) /\ req.strategy = "cvar"
     /\ noise \in GeneratorDraws(np_random, stage, cands)
     /\ np_random' = GeneratorAfter(np_random, stage, cands)
     /\ snap' = avail
     /\ scored' = [index |-> idx, cands |-> cands,
                   latency |-> <<>>,
                   tentative |-> [n \in { c \in Range(cands) : Cvar_gpu_ok(stage, c) } |->
                                    candidate_plan(placements, stage, n)]]
     /\ IF \E n \in Range(cands) :
             Cvar_gpu_ok(stage, n) /\ choose_exec_format(stage, n) = NoFeasibleFormat
        THEN PlaceRaises(NoFeasibleFormat)
        ELSE /\ idx' = idx + 1
             /\ IF b.node_name = NoValue
                THEN UNCHANGED <<placements, writer>>
                ELSE /\ placements' = (stage.id :> Decision(stage, b)) @@ placements
                     /\ writer' = (stage.id :> idx) @@ writer
             /\ UNCHANGED <<pc, resp, prev_node_for>>
     /\ avail' = availability_after_stage(avail, b.node_name)
     /\ UNCHANGED <<cluster_manager, req, submitted, observe_resp, downAll,
                    via, jobs, client_plans, observed, record_resp, verify_resp,
                    first_recorded, caller_seed, seed_runs>>

\* one stage of RiskAwareCvarPolicy.place
CvarStage(noise) == CvarStep(noise) /\ UNCHANGED call

(***************************************************************************)
(* POST /plan after place returned (api.py lines 62-89).                    *)
(***************************************************************************)
\* mutant: an empty mapping is answered like a plan
plan_response_no_empty_test(job, pl, plan_id, outcome, cm) ==
  PlanResp(job, pl, plan_id, cm)

\* what the handler returns once place has returned pl: the 400 answer for an
\* empty mapping, else the plan; outcome is how actuator.submit_plan ended
\* ("ok", "failed"), which the handler only logs
plan_response(job, pl, plan_id, outcome, cm) ==
  IF DOMAIN pl = {}
  THEN ErrorResp(400, "no feasible placements found", StageIds(job))
  ELSE PlanResp(job, pl, plan_id, cm)

\* mutant: the plan is submitted whatever dry_run says
submit_call_ignoring_dry_run(dry_run, pl, plan_id, outcome) ==
  IF DOMAIN pl = {} THEN NoSubmit
  ELSE [called |-> TRUE, plan_id |-> plan_id, placements |-> pl, outcome |-> outcome]

\* the actuator.submit_plan call of the handler (lines 81-83), if any
submit_call(dry_run, pl, plan_id, outcome) ==
  IF DOMAIN pl = {} \/ dry_run THEN NoSubmit
  ELSE [called |-> TRUE, plan_id |-> plan_id, placements |-> pl, outcome |-> outcome]

\* mutant: the exception of a failed submission leaves DTClient.plan
client_plan_response_failing_on_submit(job, pl, plan_id, outcome, cm) ==
  IF DOMAIN pl = {}
  THEN RaisedResp("RuntimeError", "no feasible placements found")
  ELSE IF outcome = "failed" /\ cm THEN RaisedResp("RuntimeError", "submit failed")
  ELSE PlanResp(job, pl, plan_id, cm)

\* DTClient.plan, offline, after place returned (lines 113-153): an empty
\* mapping raises RuntimeError, else the plan is the answer
client_plan_response(job, pl, plan_id, outcome, cm) ==
  IF DOMAIN pl = {}
  THEN RaisedResp("RuntimeError", "no feasible placements found")
  ELSE PlanResp(job, pl, plan_id, cm)

\* the Plan the offline client keeps in _plans
ClientPlan(job, pl, plan_id, cm) ==
  [plan_id |-> plan_id, job_name |-> job.name, placements |-> pl,
   predicted_latency_ms |-> score_plan_latency(job, pl, cm),
   shadow_plan |-> ShadowPlan(pl)]

\* the submit_plan call of the offline client: only with an actuator, which
\* exists only when a cluster manager was passed in
client_submit_call(dry_run, pl, plan_id, outcome, cm) ==
  IF DOMAIN pl = {} \/ dry_run \/ ~cm THEN NoSubmit
  ELSE [called |-> TRUE, plan_id |-> plan_id, placements |-> pl, outcome |-> outcome]

PlanFinish(plan_id, outcome) ==
  /\ pc = "place" /\ idx > Len(Job.stages)
  /\ pc' = "done"
  /\ IF via = "api"
     THEN /\ resp' = plan_response(Job, placements, plan_id, outcome, cluster_manager)
          /\ submitted' = submit_call(req.dry_run, placements, plan_id, outcome)
          /\ UNCHANGED <<jobs, client_plans>>
     ELSE /\ resp' = client_plan_response(Job, placements, plan_id, outcome,
                                          cluster_manager)
          /\ submitted' = client_submit_call(req.dry_run, placements, plan_id, outcome,
                                             cluster_manager)
          /\ IF DOMAIN placements = {}
             THEN UNCHANGED <<jobs, client_plans>>
             ELSE /\ jobs' = jobs \cup {Job.name}
                  /\ client_plans' =
                       (plan_id :> ClientPlan(Job, placements, plan_id, cluster_manager))
                       @@ client_plans
  /\ seed_runs' = IF req.strategy = "cvar" /\ caller_seed # NoSeed
                  THEN seed_runs \cup {[seed |-> caller_seed, job |-> req.job,
                                        avail |-> avail, placements |-> placements]}
                  ELSE seed_runs
  /\ UNCHANGED <<via, observed, record_resp, verify_resp, first_recorded, np_random,
                 caller_seed, call>>
  /\ snap' = avail
  /\ downAll' = {}
  /\ scored' = NoScore
  /\ UNCHANGED <<avail, cluster_manager, req, idx, placements, prev_node_for,
                 observe_resp, writer>>

(***************************************************************************)
(* The response has been delivered; the worker takes the next request.      *)
(***************************************************************************)
NextRequest ==
  /\ pc = "done"
  /\ pc' = "idle"
  /\ req' = NoReq
  /\ idx' = 0
  /\ placements' = <<>>
  /\ prev_node_for' = <<>>
  /\ writer' = <<>>
  /\ resp' = NoResp
  /\ submitted' = NoSubmit
  /\ snap' = avail
  /\ downAll' = {}
  /\ scored' = NoScore
  /\ UNCHANGED <<avail, cluster_manager, observe_resp, storeVars, rngVars>>

(***************************************************************************)
(* POST /observe (api.py lines 91-110); mark_node_availability raises       *)
(* NotFound for an unknown node, which the handler answers with 500.        *)
(***************************************************************************)
EventTypes == {"node_down", "node_up", "reboot", NoValue}

\* DTState.mark_node_availability (from the specification, section "State
\* store"): an atomic flip of one node's flag, NotFound for an unknown name;
\* the node set (the domain of av) is never changed
mark_node_availability(av, name, value) ==
  IF name \notin DOMAIN av
  THEN [raised |-> "NotFound", avail |-> av]
  ELSE [raised |-> NoValue, avail |-> [av EXCEPT ![name] = value]]

\* mutant: a down mark is sticky, no event makes a node available again
availability_of_event_always_down(etype) == FALSE

\* the flag an event type stands for (api.py lines 102-105)
availability_of_event(etype) == etype = "node_up"

\* mutant: an exception of the store is swallowed and the event acknowledged
observe_response_acknowledging(etype, node, raised) ==
  IF etype = NoValue \/ node = NoValue
  THEN [status |-> 400, error |-> "missing 'type' or 'node' field"]
  ELSE IF etype \notin {"node_down", "node_up"}
       THEN [status |-> 400, error |-> "unknown event type"]
  ELSE [status |-> 200, error |-> NoValue]

\* what the handler returns, as status and error text; raised is the
\* exception of mark_node_availability, NoValue when it returned.  The ok
\* body also repeats the node and the type of the request, left out here
observe_response(etype, node, raised) ==
  IF etype = NoValue \/ node = NoValue
  THEN [status |-> 400, error |-> "missing 'type' or 'node' field"]
  ELSE IF etype \notin {"node_down", "node_up"}
       THEN [status |-> 400, error |-> "unknown event type"]
  ELSE IF raised # NoValue
       THEN [status |-> 500, error |-> raised]
  ELSE [status |-> 200, error |-> NoValue]

Observe(etype, node) ==
  LET called == etype \in {"node_down", "node_up"} /\ node # NoValue
      marked == IF called
                THEN mark_node_availability(avail, node, availability_of_event(etype))
                ELSE [raised |-> NoValue, avail |-> avail]
  IN /\ observe_resp' = observe_response(etype, node, marked.raised)
     /\ avail' = marked.avail
     /\ downAll' = IF called /\ etype = "node_up" THEN downAll \ {node} ELSE downAll
     /\ snap' = IF pc = "place" THEN snap ELSE avail'
     /\ UNCHANGED <<cluster_manager, pc, req, idx, placements, prev_node_for, resp,
                    submitted, scored, writer, storeVars, rngVars>>

(***************************************************************************)
(* The verification channel: DTState.record_observed and                    *)
(* get_observed_metrics (from the specification, section "State store"),    *)
(* GET /plan/<id>/verify (api.py lines 135-157) and DTClient.verify         *)
(* (dt_client.py lines 155-186).  Numbers: cpu_util in percent, mem_peak_gb *)
(* in hundredths, the latency_ms of observed metrics in hundredths of a     *)
(* millisecond, so that 0.98 x the predicted latency is exact; energy_kwh   *)
(* passes through like latency_ms and is left out.                          *)
(***************************************************************************)
\* the ObservedMetrics a caller may hand to record_observed for a plan
MetricsFor(pid) ==
  { [plan_id |-> pid, latency_ms |-> l, cpu_util |-> 60, mem_peak_gb |-> 100,
     completed_at |-> 1000] : l \in {12000, 15000} }

\* the wall clock readings of time.time() * 1000
Times == {2000}

\* DTState.record_observed: at most once for a plan id
record_observed(store, pid, m) ==
  IF store[pid] # NoMetrics
  THEN [status |-> "AlreadyExists", plan_id |-> pid, store |-> store]
  ELSE [status |-> "ok", plan_id |-> pid, store |-> [store EXCEPT ![pid] = m]]

\* DTState.get_observed_metrics: the stored metrics, or nothing
get_observed_metrics(store, pid) ==
  IF pid \in DOMAIN store THEN store[pid] ELSE NoMetrics

\* the observed block of the api's answer
ObservedPayload(m) ==
  [latency_ms |-> m.latency_ms, cpu_util |-> m.cpu_util,
   mem_peak_gb |-> m.mem_peak_gb, completed_at |-> m.completed_at]

\* GET /plan/<plan_id>/verify
verify_plan(store, pid) ==
  IF get_observed_metrics(store, pid) = NoMetrics
  THEN [status |-> 404, found |-> FALSE, observed |-> <<>>,
        note |-> "No observed metrics found"]
  ELSE [status |-> 200, found |-> TRUE,
        observed |-> ObservedPayload(get_observed_metrics(store, pid)),
        note |-> "Predicted values should be retrieved from stored plan"]

\* the metrics the offline client makes up from a plan it holds: 0.98 x the
\* predicted latency (in hundredths: 98 x), fixed utilisation and memory
simulated_observed(plan, now) ==
  [latency_ms |-> plan.predicted_latency_ms * 98, cpu_util |-> 62,
   mem_peak_gb |-> 45, completed_at |-> now]

\* DTClient.verify; found = FALSE stands for the None it returns.  Online it
\* passes the api's answer on (404 becomes None); offline it answers from
\* the store, else from the plans it made itself, else None
client_verify(v, store, plans, pid, now) ==
  IF v = "api"
  THEN IF verify_plan(store, pid).status = 404 THEN NoVerify
       ELSE verify_plan(store, pid)
  ELSE IF get_observed_metrics(store, pid) # NoMetrics
       THEN [status |-> 0, found |-> TRUE,
             observed |-> ObservedPayload(get_observed_metrics(store, pid)),
             note |-> "Recorded by DTState"]
  ELSE IF pid \notin DOMAIN plans THEN NoVerify
  ELSE [status |-> 0, found |-> TRUE,
        observed |-> simulated_observed(plans[pid], now),
        note |-> "Simulated verification (offline mode)"]

\* the unchanged variables of a step of the verification channel
planVars == <<avail, cluster_manager, pc, req, idx, placements, prev_node_for, resp,
              submitted, observe_resp, np_random, caller_seed, seed_runs, call,
              snap, downAll, scored, writer>>

\* the actuator/verification path records the outcome of a plan
RecordObserved(pid, m) ==
  /\ observed' = record_observed(observed, pid, m).store
  /\ record_resp' = record_observed(observed, pid, m).status
  /\ first_recorded' = IF record_observed(observed, pid, m).status = "ok"
                          /\ first_recorded[pid] = NoMetrics
                       THEN [first_recorded EXCEPT ![pid] = m]
                       ELSE first_recorded
  /\ UNCHANGED <<via, jobs, client_plans, verify_resp>>
  /\ UNCHANGED planVars

VerifyPlan(pid) ==
  /\ via = "api"
  /\ verify_resp' = verify_plan(observed, pid)
  /\ UNCHANGED <<via, jobs, client_plans, observed, record_resp, first_recorded>>
  /\ UNCHANGED planVars

ClientVerify(pid, now) ==
  /\ verify_resp' = client_verify(via, observed, client_plans, pid, now)
  /\ UNCHANGED <<via, jobs, client_plans, observed, record_resp, first_recorded>>
  /\ UNCHANGED planVars

Next ==
  \/ pc = "idle" /\ \E js \in JobSpecs, st \in Strategies, dry \in BOOLEAN :
                      PlanRequest(js, st, dry)
  \/ ResilientStage
  \/ /\ pc = "place" /\ req.strategy = "cvar" /\ idx <= Len(Job.stages)
     /\ \E noise \in [Range(Cvar_candidate_nodes(Job.stages[idx], avail)) -> NoiseDraws] :
          CvarStage(noise)
  \/ \E pid \in PlanIds, out \in {"ok", "failed"} : PlanFinish(pid, out)
  \/ NextRequest
  \/ \E et \in {"node_down", "node_up"}, n \in Nodes : Observe(et, n)

Spec == Init /\ [][Next]_vars

(***************************************************************************)
(* An in-process caller (the offline client) that seeds the process-wide    *)
(* generator, the only seed the CVaR policy can be given, and plans one job *)
(* with the CVaR policy on an unchanging cluster.                           *)
(***************************************************************************)
\* np.random.seed(s), between two requests
SeedGlobal(s) ==
  /\ pc = "idle"
  /\ np_random' = s
  /\ caller_seed' = s
  /\ UNCHANGED <<avail, cluster_manager, pc, req, idx, placements, prev_node_for, resp,
                 submitted, observe_resp, storeVars, seed_runs, snap, downAll, scored,
                 writer>>

SeedJobs ==
  { [kind |-> "object", name |-> "job", origin |-> NoValue, stages |-> <<PlainStage>>] }

InitSeed ==
  /\ InitCommon
  /\ call = NoCall
  /\ via = "offline"
  /\ cluster_manager = FALSE

NextSeed ==
  \/ \E s \in Seeds : SeedGlobal(s)
  \/ pc = "idle" /\ \E js \in SeedJobs :
                      PlanRequest(js, "cvar", TRUE)
  \/ /\ pc = "place" /\ req.strategy = "cvar" /\ idx <= Len(Job.stages)
     /\ \E noise \in [Range(Cvar_candidate_nodes(Job.stages[idx], avail)) -> NoiseDraws] :
          CvarStage(noise)
  \/ \E pid \in PlanIds : PlanFinish(pid, "ok")
  \/ NextRequest

SpecSeed == InitSeed /\ [][NextSeed]_vars

(***************************************************************************)
(* The verification channel next to planning: a deployment behind the api   *)
(* or an offline client, with or without a cluster manager; the jobs are a  *)
(* one-stage and a two-stage job, planned by the resilient policy.          *)
(***************************************************************************)
VerifyJobs ==
  { [kind |-> "object", name |-> "job", origin |-> NoValue, stages |-> st] :
      st \in { <<PlainStage>>, <<PlainStage, GpuStage>> } }

InitVerify ==
  /\ InitCommon
  /\ call = NoCall
  /\ via \in {"api", "offline"}
  /\ cluster_manager \in BOOLEAN

NextVerify ==
  \/ pc = "idle" /\ \E js \in VerifyJobs, dry \in BOOLEAN :
                      PlanRequest(js, "resilient", dry)
  \/ ResilientStage
  \/ \E pid \in PlanIds, out \in {"ok", "failed"} : PlanFinish(pid, out)
  \/ NextRequest
  \/ \E pid \in PlanIds : \E m \in MetricsFor(pid) : RecordObserved(pid, m)
  \/ \E pid \in PlanIds : VerifyPlan(pid)
  \/ \E pid \in PlanIds, now \in Times : ClientVerify(pid, now)

SpecVerify == InitVerify /\ [][NextVerify]_vars

(***************************************************************************)
(* The tail estimate of _sample_cost on its own (cvar.py lines 72-74), for  *)
(* sample lists and values of alpha the policy can be constructed with.     *)
(***************************************************************************)
SampleValues == {90, 99, 110, 121}

AlphaValues == {0, 50, 95, 100}

SampleLists == UNION { [1..k -> SampleValues] : k \in 1..MaxSamples }

InitTail ==
  /\ InitCommon
  /\ via = "api"
  /\ cluster_manager = TRUE
  /\ call \in { [fn |-> "tail", samples |-> sl, alpha |-> a, done |-> FALSE,
                  cvar |-> [num |-> 0, den |-> 1, tail |-> 0]] :
                  sl \in SampleLists, a \in AlphaValues }

TailCall ==
  /\ call.fn = "tail" /\ ~call.done
  /\ call' = [call EXCEPT !.done = TRUE, !.cvar = TailMean(call.samples, call.alpha)]
  /\ UNCHANGED <<via, jobs, client_plans, observed, record_resp, verify_resp,
                 first_recorded>>
  /\ UNCHANGED <<avail, cluster_manager, pc, req, idx, placements, prev_node_for, resp,
                 submitted, observe_resp, np_random, caller_seed, seed_runs,
                 snap, downAll, scored, writer>>

NextTail == TailCall

SpecTail == InitTail /\ [][NextTail]_vars

(***************************************************************************)
(* Properties.                                                              *)
(***************************************************************************)
\* the request in flight carries a job that parsed
HasJob == pc # "idle" /\ parse_job_spec(req.job).kind = "Job"

\* place has returned its mapping (the stage loop ran to its end)
PlaceReturned == HasJob /\ idx > Len(Job.stages)

\* the stage a decision of the mapping was made for
StageOf(sid) == Job.stages[writer[sid]]

\* C1: a node that has been unavailable ever since the plan request began
\* (marked down before it and not marked up again) holds no stage of the
\* mapping the policy builds, at any point of the call and in the mapping
\* place returns.
C1_DownNodeNeverAssigned ==
  HasJob => \A sid \in DOMAIN placements : placements[sid].node_name \notin downAll

\* C1 witness: place returned a mapping for every stage of a two-stage job
\* while some node was unavailable during the whole call.
C1_Witness ==
  /\ PlaceReturned /\ pc = "place"
  /\ Len(Job.stages) = 2
  /\ DOMAIN placements = {"s1", "s2"}
  /\ downAll # {}

\* C2 as claimed: whenever place returned a mapping that lacks a stage of the
\* job, the request fails with the 400 answer that lists the stage ids, so
\* the placements of a returned plan cover every stage.
C2_AsClaimed ==
  (pc = "done" /\ PlaceReturned
     /\ \E k \in 1..Len(Job.stages) : Job.stages[k].id \notin DOMAIN placements)
  => (resp.status = 400 /\ resp.stages # <<>>)

\* a decision meets the GPU and format constraints of its stage
MeetsGpuAndFormat(st, d) ==
  /\ NodeInfo[d.node_name].gpu_vram_gb >= st.compute.gpu_vram_gb
  /\ d.exec_format \in Range(st.constraints.formats)

\* C3 as claimed: every decision of a returned mapping is on a node with
\* enough GPU memory and with an arch of the stage's arch list, in a format
\* of the stage's format list.
C3_AsClaimed ==
  PlaceReturned =>
    \A sid \in DOMAIN placements :
      /\ MeetsGpuAndFormat(StageOf(sid), placements[sid])
      /\ NodeInfo[placements[sid].node_name].arch \in Range(StageOf(sid).constraints.arch)

\* C3 amended: every decision of a returned mapping is on a node with enough
\* GPU memory, in a format of the stage's format list, and the node's arch is
\* in the stage's arch list unless the stage runs as wasm.
C3_HardConstraints ==
  PlaceReturned =>
    \A sid \in DOMAIN placements :
      /\ MeetsGpuAndFormat(StageOf(sid), placements[sid])
      /\ \/ NodeInfo[placements[sid].node_name].arch \in Range(StageOf(sid).constraints.arch)
         \/ placements[sid].exec_format = "wasm"

\* C3 witness: a returned mapping that holds a GPU stage on the GPU node and
\* a stage on a node of another arch, run as wasm.
C3_Witness ==
  /\ PlaceReturned
  /\ DOMAIN placements = {"s1", "s2"}
  /\ StageOf("s2").compute.gpu_vram_gb = 16
  /\ placements["s2"].node_name = "n2"
  /\ NodeInfo[placements["s1"].node_name].arch = "arm64"
  /\ placements["s1"].exec_format = "wasm"

\* the candidate list the policy of the request computes from availability av
CandidateNodes(stage, av) ==
  IF req.strategy = "resilient" THEN Resilient_candidate_nodes(stage, av)
  ELSE Cvar_candidate_nodes(stage, av)

\* C4 as claimed: every stage of one place call computes its candidates from
\* the availability the previous stage of the call saw; a flip between two
\* stages is not observed by the later stage.
C4_AsClaimed ==
  [][ (pc = "place" /\ pc' = "place" /\ idx >= 2 /\ scored'.index = idx)
        => scored'.cands = CandidateNodes(Job.stages[idx], snap) ]_vars

\* the metrics the first successful record_observed stored for a plan id are
\* what the store and both verification queries answer with
AnswersFirstMetrics(pid) ==
  /\ observed[pid] = first_recorded[pid]
  /\ get_observed_metrics(observed, pid) = first_recorded[pid]
  /\ first_recorded[pid] # NoMetrics =>
       /\ verify_plan(observed, pid).status = 200
       /\ verify_plan(observed, pid).observed = ObservedPayload(first_recorded[pid])
       /\ \A now \in Times :
            /\ client_verify(via, observed, client_plans, pid, now).found
            /\ client_verify(via, observed, client_plans, pid, now).observed
                 = ObservedPayload(first_recorded[pid])

\* C5 as claimed: record_observed succeeds at most once for a plan id, a
\* second call fails with AlreadyExists and leaves the first metrics in place,
\* get_observed and the verification queries (the api's and the client's)
\* answer with exactly the first metrics, and with nothing for a plan id that
\* was never recorded.
C5_AsClaimed ==
  \A pid \in PlanIds :
    /\ AnswersFirstMetrics(pid)
    /\ first_recorded[pid] = NoMetrics =>
         /\ ~verify_plan(observed, pid).found
         /\ \A now \in Times : ~client_verify(via, observed, client_plans, pid, now).found

\* C6: when no available node has the GPU memory any stage of the job needs
\* during the whole call (in particular when every node is unavailable),
\* place returns an empty mapping; and an empty mapping is answered with the
\* 400 error that lists the stage ids, without a plan id and without a call
\* of the actuator.
C6_NoFeasiblePlacement ==
  /\ (pc = "place" /\ PlaceReturned
        /\ \A k \in 1..Len(Job.stages) : \A n \in Nodes \ downAll :
             NodeInfo[n].gpu_vram_gb < Job.stages[k].compute.gpu_vram_gb)
     => DOMAIN placements = {}
  /\ (pc = "done" /\ PlaceReturned /\ DOMAIN placements = {})
     => /\ resp.status = 400
        /\ resp.error = "no feasible placements found"
        /\ resp.stages = StageIds(Job)
        /\ resp.plan_id = NoValue
        /\ resp.placements = <<>>
        /\ ~submitted.called

\* C6 witness: a request with dry_run = false for a two-stage job was
\* answered after place found no node for any stage.
C6_Witness ==
  /\ pc = "done" /\ PlaceReturned
  /\ DOMAIN placements = {}
  /\ ~req.dry_run
  /\ resp.status = 400
  /\ Len(resp.stages) = 2

\* the job spec is missing, not an object, has no stage, lacks the name or
\* has a stage without an id
BadJobSpec(js) ==
  \/ js.kind # "object"
  \/ Len(js.stages) = 0
  \/ js.name = NoValue
  \/ \E k \in 1..Len(js.stages) : js.stages[k].id = NoValue

\* C7 as claimed: a request with such a job spec is answered with the 400
\* BadJobSpec error; no policy runs, no plan id is issued and the actuator is
\* not called.
C7_AsClaimed ==
  (pc = "done" /\ BadJobSpec(req.job))
  => /\ resp.status = 400
     /\ resp.plan_id = NoValue
     /\ DOMAIN placements = {}
     /\ scored.index = 0
     /\ ~submitted.called

\* C8: when actuator.submit_plan failed, the request (to the api, or to the
\* offline client) is still answered, without an error, with the plan
\* computed from the mapping place returned, under the plan id the actuator
\* was called with.
C8_SubmitFailureKeepsPlan ==
  (pc = "done" /\ submitted.called /\ submitted.outcome = "failed")
  => /\ resp.status = 200
     /\ resp.raised = NoValue
     /\ resp.error = NoValue
     /\ resp.plan_id = submitted.plan_id
     /\ resp.placements = placements
     /\ resp.predicted_latency_ms = score_plan_latency(Job, placements, cluster_manager)
     /\ DOMAIN resp.shadow_plan = { BackupKey(sid) : sid \in DOMAIN placements }

\* C8 witness: the api answered with a two-stage plan although its
\* submission failed.
C8_Witness ==
  /\ pc = "done" /\ via = "api"
  /\ submitted.called /\ submitted.outcome = "failed"
  /\ resp.status = 200
  /\ DOMAIN resp.placements = {"s1", "s2"}

\* C9: every decision of the resilient policy is on a node whose allocatable
\* cpu and memory cover the stage's demand.
C9_ResilientAllocatableGate ==
  (HasJob /\ req.strategy = "resilient")
  => \A sid \in DOMAIN placements :
       /\ NodeInfo[placements[sid].node_name].allocatable_cpu >= StageOf(sid).compute.cpu
       /\ NodeInfo[placements[sid].node_name].allocatable_mem_gb
            >= StageOf(sid).compute.mem_gb

\* C9 witness: the first stage asks for more memory than any node offers,
\* though every node has the cpu for it, and got no decision; the second
\* needs more cpu than n2 offers, n2 being available with memory enough, and
\* was placed on another node.
C9_Witness ==
  /\ HasJob /\ req.strategy = "resilient" /\ pc = "place"
  /\ Len(Job.stages) = 2 /\ scored.index = 2
  /\ \A n \in Nodes :
       /\ NodeInfo[n].allocatable_mem_gb < Job.stages[1].compute.mem_gb
       /\ NodeInfo[n].allocatable_cpu >= Job.stages[1].compute.cpu
  /\ Job.stages[1].id \notin DOMAIN placements
  /\ "s2" \in DOMAIN placements /\ writer["s2"] = 2
  /\ StageOf("s2").compute.cpu > NodeInfo["n2"].allocatable_cpu
  /\ StageOf("s2").compute.mem_gb <= NodeInfo["n2"].allocatable_mem_gb
  /\ snap["n2"] /\ placements["s2"].node_name # "n2"

\* C10: the stages of one place call are handled in declaration order, and a
\* stage whose predecessor was placed earlier in the call is scored with the
\* earlier decisions: the resilient policy adds, for every candidate, the
\* network delay from the node chosen for the predecessor; the CVaR policy
\* scores, for every candidate, the mapping built so far plus the candidate.
C10_EarlierDecisionsVisible ==
  [][ (pc = "place" /\ scored'.index >= 1 /\ scored'.index # scored.index)
        => /\ scored'.index = idx
           /\ scored'.index = scored.index + 1
           /\ LET st == Job.stages[idx]
              IN (st.predecessor # NoValue /\ st.predecessor \in DOMAIN placements)
                 => /\ \A c \in DOMAIN scored'.latency :
                         scored'.latency[c] =
                           compute_stage_latency_ms(st, c, choose_exec_format(st, c))
                           + compute_network_delay_ms(
                               placements[st.predecessor].node_name, c)
                    /\ \A c \in DOMAIN scored'.tentative :
                         /\ DOMAIN scored'.tentative[c] = DOMAIN placements \cup {st.id}
                         /\ scored'.tentative[c][st.id].node_name = c
                         /\ \A sid \in DOMAIN placements \ {st.id} :
                              scored'.tentative[c][sid] = placements[sid] ]_vars

\* C10 witness: the second stage of a call was scored and placed on a node of
\* another cluster than the node chosen for its predecessor, the first stage.
C10_Witness ==
  /\ pc = "place" /\ HasJob
  /\ scored.index = 2
  /\ Job.stages[2].predecessor = "s1"
  /\ DOMAIN placements = {"s1", "s2"}
  /\ writer["s1"] = 1 /\ writer["s2"] = 2
  /\ NodeInfo[placements["s1"].node_name].cluster
       # NodeInfo[placements["s2"].node_name].cluster

\* C11 as claimed: a NoFeasibleFormat of the simulator never ends a request in
\* an internal error: place runs through all stages of every job that parsed
\* and the request is answered with a plan or with the 400 error.
C11_AsClaimed ==
  (pc = "done" /\ HasJob)
  => /\ PlaceReturned
     /\ resp.status \in {200, 400}
     /\ resp.raised = NoValue

\* C12 as claimed: two CVaR place calls that run under the same caller's
\* seed, for the same job on the same state, return identical placements.
C12_AsClaimed ==
  \A a, b \in seed_runs :
    (a.seed = b.seed /\ a.job = b.job /\ a.avail = b.avail)
    => a.placements = b.placements

\* the largest sample of a list
MaxSample(samples) ==
  CHOOSE x \in Range(samples) : \A y \in Range(samples) : y <= x

\* C13: for every non-empty sample list the tail estimate with alpha = 1.0 is
\* the largest sample, and with alpha = 0.0 it is the mean of all samples.
C13_TailEstimateAtExtremes ==
  (call.fn = "tail" /\ call.done)
  => /\ call.alpha = 100
          => call.cvar.num = call.cvar.den * MaxSample(call.samples)
     /\ call.alpha = 0
          => call.cvar.num * Len(call.samples) = call.cvar.den * SumSeq(call.samples)

\* C13 witness: the estimate with alpha = 1.0 of three samples, the largest
\* of which occurs once.
C13_Witness ==
  /\ call.fn = "tail" /\ call.done
  /\ call.alpha = 100
  /\ call.samples = <<110, 121, 90>>
  /\ call.cvar.num = 121 * call.cvar.den

\* a step of the stage loop of place: a stage was handled, or an exception
\* left the loop
PlaceStep ==
  /\ pc = "place" /\ idx <= Len(Job.stages)
  /\ (idx' = idx + 1 \/ pc' = "done")

\* C14: no step of place, of either policy, changes the store: the
\* availability of every node (the node set and the node attributes are
\* fixed), the job ledger and the observed metrics stay what they were.
C14_PlaceReadsOnly ==
  [][ PlaceStep => /\ avail' = avail
                   /\ DOMAIN avail' = Nodes
                   /\ jobs' = jobs
                   /\ observed' = observed ]_vars

\* C14 witness: the CVaR policy has placed both stages of a job and every
\* node is still available.
C14_Witness ==
  /\ PlaceReturned /\ pc = "place"
  /\ req.strategy = "cvar"
  /\ DOMAIN placements = {"s1", "s2"}
  /\ \A n \in Nodes : avail[n]

(***************************************************************************)
(* GET /snapshot (api.py lines 112-124): the names of all nodes of the      *)
(* store, available or not, in the store's order.  The store is seeded at   *)
(* construction, so the branch that seeds an empty store is never taken.    *)
(***************************************************************************)
\* mutant: only the available nodes are listed
snapshot_available_only(av) ==
  [fn |-> "snapshot", nodes |-> SelectSeq(NodeOrder, LAMBDA n : n \in DOMAIN av /\ av[n])]

\* the answer of the handler over the store's nodes
snapshot(av) ==
  [fn |-> "snapshot", nodes |-> SelectSeq(NodeOrder, LAMBDA n : n \in DOMAIN av)]

Snapshot ==
  /\ call' = snapshot(avail)
  /\ UNCHANGED <<avail, cluster_manager, pc, req, idx, placements, prev_node_for, resp,
                 submitted, observe_resp, via, jobs, client_plans, observed,
                 record_resp, verify_resp, first_recorded, rngVars, snap, downAll,
                 scored, writer>>

(***************************************************************************)
(* The API under every kind of /observe request, well-formed or not, for    *)
(* seeded and unknown nodes, with /snapshot queries and dry-run plans of a  *)
(* one-stage job, with and without an origin, and of a two-stage job, under *)
(* both strategies, in between.                                             *)
(***************************************************************************)
ObserveNodes == Nodes \cup {GhostNode, NoValue}

\* a second stage that needs three cores
WideStage ==
  [id |-> "s2", cpu |-> "3", mem_gb |-> "1", duration_ms |-> "100", gpu_vram_gb |-> "0",
   formats |-> <<"wasm", "native">>, predecessor |-> "s1"]

ObserveJobs ==
  { [kind |-> "object", name |-> "job", origin |-> NoValue, stages |-> st] :
      st \in { <<PlainStage>>, <<PlainStage, WideStage>> } }
  \cup
  { [kind |-> "object", name |-> "job", origin |-> "edge-microdc",
     stages |-> <<PlainStage>>] }

InitObserve ==
  /\ InitCommon
  /\ call = NoCall
  /\ via = "api"
  /\ cluster_manager = TRUE

NextObserve ==
  \/ \E et \in EventTypes, n \in ObserveNodes : Observe(et, n)
  \/ Snapshot
  \/ pc = "idle" /\ \E js \in ObserveJobs, st \in Strategies :
                      PlanRequest(js, st, TRUE)
  \/ ResilientStage
  \/ /\ pc = "place" /\ req.strategy = "cvar" /\ idx <= Len(Job.stages)
     /\ \E noise \in [Range(Cvar_candidate_nodes(Job.stages[idx], avail)) -> NoiseDraws] :
          CvarStage(noise)
  \/ \E pid \in PlanIds : PlanFinish(pid, "ok")
  \/ NextRequest

SpecObserve == InitObserve /\ [][NextObserve]_vars

\* C15: an availability event that names a node the store does not hold
\* fails with NotFound: the answer is an error, never the ok acknowledgement,
\* no node is added and the availability of every existing node stays as it
\* was.
C15_UnknownNodeEventFails ==
  [][ \A et \in {"node_down", "node_up"} :
        Observe(et, GhostNode) =>
          /\ mark_node_availability(avail, GhostNode, availability_of_event(et)).raised
               = "NotFound"
          /\ observe_resp'.status # 200
          /\ observe_resp'.error = "NotFound"
          /\ DOMAIN avail' = Nodes
          /\ avail' = avail ]_vars

\* C15 witness: the NotFound answer stands after an event on an unknown node,
\* sent while a seeded node was down and a plan was being placed.
C15_Witness ==
  /\ observe_resp.status = 500
  /\ observe_resp.error = "NotFound"
  /\ ~avail["n2"] /\ avail["n1"]
  /\ pc = "place"

\* C17: an unavailable node stays in the store: whatever node_down and
\* node_up events came before it, a snapshot lists the node names it listed
\* before any event.
C17_SnapshotKeepsNodes ==
  call.fn = "snapshot" => call.nodes = snapshot([n \in Nodes |-> TRUE]).nodes

\* C17 witness: a snapshot that listed all three nodes while two of them are
\* down.
C17_Witness ==
  /\ call.fn = "snapshot"
  /\ call.nodes = <<"n1", "n2", "n3">>
  /\ ~avail["n1"] /\ ~avail["n3"]
  /\ observe_resp.status = 200

\* every seeded node available
AllUp == [n \in Nodes |-> TRUE]

\* C16: availability is a two-state flag per node that only availability
\* events change: node_down makes the node unavailable, node_up makes it
\* available again, no other step changes any flag; and the candidate list of
\* every stage step holds exactly the nodes that qualify for the stage and
\* are available at that moment, so a node that is down gets no stage and a
\* node that is up again is a candidate again.
C16_AvailabilityTwoState ==
  [][ /\ \A n \in Nodes :
           /\ Observe("node_down", n) => avail' = [avail EXCEPT ![n] = FALSE]
           /\ Observe("node_up", n) => avail' = [avail EXCEPT ![n] = TRUE]
      /\ avail' # avail =>
           \E et \in {"node_down", "node_up"}, n \in Nodes : Observe(et, n)
      /\ PlaceStep =>
           /\ \A n \in Nodes :
                n \in Range(scored'.cands)
                  <=> (avail[n] /\ n \in Range(CandidateNodes(Job.stages[idx], AllUp)))
           /\ \A sid \in DOMAIN placements' \ DOMAIN placements :
                avail[placements'[sid].node_name] ]_vars

\* C16 witness: the first stage went to n3 although n1 wins it whenever n1 is
\* available, so n1 was down then; at the second stage n1 is a candidate
\* again.
C16_Witness ==
  /\ pc = "place" /\ HasJob /\ req.strategy = "resilient"
  /\ scored.index = 2
  /\ "n1" \in Range(scored.cands)
  /\ "s1" \in DOMAIN placements /\ placements["s1"].node_name = "n3"
  /\ LET cands == Resilient_candidate_nodes(Job.stages[1], AllUp)
     IN Resilient_scan(Job, Job.stages[1], cands, <<>>, cluster_manager,
                       Len(cands)).node_name = "n1"

\* a node other than the primary that could host the stage now: available,
\* accepted by the resilient policy's candidate test, with a feasible format
OtherHost(stage, primary) ==
  { n \in Nodes \ {primary} :
      /\ n \in Range(Resilient_candidate_nodes(stage, avail))
      /\ choose_exec_format(stage, n) # NoFeasibleFormat }

\* C18 as claimed: the shadow_plan of a returned plan has one backup entry
\* per placed stage, and the backup node differs from the stage's primary
\* node whenever another node could host the stage.
C18_AsClaimed ==
  (pc = "done" /\ HasJob /\ resp.status = 200) =>
    /\ DOMAIN resp.shadow_plan = { BackupKey(sid) : sid \in DOMAIN resp.placements }
    /\ \A sid \in DOMAIN resp.placements :
         OtherHost(StageOf(sid), resp.placements[sid].node_name) # {}
           => resp.shadow_plan[BackupKey(sid)] # resp.placements[sid].node_name

(***************************************************************************)
(* The API built without a cluster manager (app.py lines 26-37: the latency *)
(* matrix is missing or fails to load), planning one-stage jobs with and    *)
(* without an origin under both strategies; no availability events.         *)
(***************************************************************************)
NoManagerJobs == { js \in ObjectJobs : js.name # NoValue /\ Len(js.stages) = 1 }

InitNoManager ==
  /\ InitCommon
  /\ call = NoCall
  /\ via = "api"
  /\ cluster_manager = FALSE

NextNoManager ==
  \/ pc = "idle" /\ \E js \in NoManagerJobs, st \in Strategies, dry \in BOOLEAN :
                      PlanRequest(js, st, dry)
  \/ ResilientStage
  \/ /\ pc = "place" /\ req.strategy = "cvar" /\ idx <= Len(Job.stages)
     /\ \E noise \in [Range(Cvar_candidate_nodes(Job.stages[idx], avail)) -> NoiseDraws] :
          CvarStage(noise)
  \/ \E pid \in PlanIds, out \in {"ok", "failed"} : PlanFinish(pid, out)
  \/ NextRequest

SpecNoManager == InitNoManager /\ [][NextNoManager]_vars

\* the nodes that can host a stage now
Hosts(stage) ==
  { n \in Nodes : /\ n \in Range(Resilient_candidate_nodes(stage, avail))
                  /\ choose_exec_format(stage, n) # NoFeasibleFormat }

\* C19 as claimed: without a cluster manager a plan request for a job whose
\* every stage has a node that can host it succeeds, and the origin-latency
\* term of every node is 0, also for a job that declares an origin.
C19_AsClaimed ==
  (~cluster_manager /\ pc = "done" /\ HasJob) =>
    /\ (\A k \in 1..Len(Job.stages) : Hosts(Job.stages[k]) # {}) => resp.status = 200
    /\ \A n \in Nodes : compute_origin_latency(Job, n, cluster_manager) = 0

(***************************************************************************)
(* ResilientPolicy.__init__ on its own (resilient.py lines 26-47).  Weights *)
(* are in tenths; a weight the constructor stores is the fraction num/den.  *)
(***************************************************************************)
\* 1.0 in tenths
One == 10

\* the weights a caller may pass, in tenths
WeightValues == {-5, 0, 2, 3, 5}

\* the attributes of a policy whose construction failed
NoWeights == [num |-> 0, den |-> 0]

\* no policy constructed yet
NoPolicy ==
  [raised |-> NoValue, capacity_weight |-> NoWeights, resiliency_weight |-> NoWeights,
   utilization_weight |-> NoWeights]

\* mutant: the weights are stored as they were given
ResilientPolicy_init_as_given(c, r, u) ==
  [raised |-> NoValue,
   capacity_weight |-> [num |-> c, den |-> One],
   resiliency_weight |-> [num |-> r, den |-> One],
   utilization_weight |-> [num |-> u, den |-> One]]

\* the constructor: a total of 1.0 keeps the weights, any other total divides
\* each weight by it, and the division by a total of 0 raises
ResilientPolicy_init(c, r, u) ==
  LET total == c + r + u
  IN IF total = One
     THEN [raised |-> NoValue,
           capacity_weight |-> [num |-> c, den |-> One],
           resiliency_weight |-> [num |-> r, den |-> One],
           utilization_weight |-> [num |-> u, den |-> One]]
     ELSE IF total = 0
          THEN [raised |-> "ZeroDivisionError", capacity_weight |-> NoWeights,
                resiliency_weight |-> NoWeights, utilization_weight |-> NoWeights]
     ELSE [raised |-> NoValue,
           capacity_weight |-> [num |-> c, den |-> total],
           resiliency_weight |-> [num |-> r, den |-> total],
           utilization_weight |-> [num |-> u, den |-> total]]

InitWeights ==
  /\ InitCommon
  /\ via = "api"
  /\ cluster_manager = TRUE
  /\ call \in { [fn |-> "init", args |-> [c |-> c, r |-> r, u |-> u], done |-> FALSE,
                  policy |-> NoPolicy] :
                  c \in WeightValues, r \in WeightValues, u \in WeightValues }

Construct ==
  /\ call.fn = "init" /\ ~call.done
  /\ call' = [call EXCEPT !.done = TRUE,
                          !.policy = ResilientPolicy_init(call.args.c, call.args.r,
                                                          call.args.u)]
  /\ UNCHANGED <<via, jobs, client_plans, observed, record_resp, verify_resp,
                 first_recorded>>
  /\ UNCHANGED <<avail, cluster_manager, pc, req, idx, placements, prev_node_for, resp,
                 submitted, observe_resp, np_random, caller_seed, seed_runs,
                 snap, downAll, scored, writer>>

NextWeights == Construct

SpecWeights == InitWeights /\ [][NextWeights]_vars

\* the three stored weights add up to 1: a/x + b/y + c/z = 1, multiplied out
WeightsSumToOne(p) ==
  LET a == p.capacity_weight
      b == p.resiliency_weight
      c == p.utilization_weight
  IN /\ a.den # 0 /\ b.den # 0 /\ c.den # 0
     /\ a.num * b.den * c.den + b.num * a.den * c.den + c.num * a.den * b.den
          = a.den * b.den * c.den

\* C20 as claimed: whatever three weights the policy is constructed with,
\* construction succeeds and the stored weights add up to 1.
C20_AsClaimed ==
  (call.fn = "init" /\ call.done) =>
    /\ call.policy.raised = NoValue
    /\ WeightsSumToOne(call.policy)

\* C20: for three weights whose total is not 0, construction succeeds, the
\* stored weights add up to 1, and each is the given weight divided by the
\* total; a total of 0 makes construction fail with ZeroDivisionError.
C20_NormalisedUnlessZeroTotal ==
  (call.fn = "init" /\ call.done) =>
    LET total == call.args.c + call.args.r + call.args.u
    IN /\ total # 0 =>
            /\ call.policy.raised = NoValue
            /\ WeightsSumToOne(call.policy)
            /\ call.policy.capacity_weight.num * total
                 = call.args.c * call.policy.capacity_weight.den
            /\ call.policy.resiliency_weight.num * total
                 = call.args.r * call.policy.resiliency_weight.den
            /\ call.policy.utilization_weight.num * total
                 = call.args.u * call.policy.utilization_weight.den
       /\ total = 0 => call.policy.raised = "ZeroDivisionError"

\* C20 witness: the weights 0.5, 0.5, 0.5 were normalised to a third each.
C20_Witness ==
  /\ call.fn = "init" /\ call.done
  /\ call.args = [c |-> 5, r |-> 5, u |-> 5]
  /\ call.policy.raised = NoValue
  /\ call.policy.capacity_weight = [num |-> 5, den |-> 15]
  /\ WeightsSumToOne(call.policy)

\* C21 as claimed: in every Job parse_job_spec returns, the stage ids are
\* unique and every predecessor that is set is the id of a stage declared
\* earlier in the job.
C21_AsClaimed ==
  HasJob =>
    /\ \A i, j \in 1..Len(Job.stages) : i # j => Job.stages[i].id # Job.stages[j].id
    /\ \A k \in 1..Len(Job.stages) :
         Job.stages[k].predecessor # NoValue
           => \E j \in 1..(k - 1) : Job.stages[j].id = Job.stages[k].predecessor

\* the nodes a stage can be placed on under the strategy of the request:
\* available, with enough GPU memory and, for the resilient policy only, with
\* no less allocatable cpu and memory than the stage demands
Placeable(stage, av) ==
  { n \in Nodes :
      /\ av[n]
      /\ stage.compute.gpu_vram_gb > 0
           => NodeInfo[n].gpu_vram_gb >= stage.compute.gpu_vram_gb
      /\ req.strategy = "resilient"
           => /\ NodeInfo[n].allocatable_cpu >= stage.compute.cpu
              /\ NodeInfo[n].allocatable_mem_gb >= stage.compute.mem_gb }

\* a stage step that went through to the next stage
StageDone == PlaceStep /\ idx' = idx + 1

\* C22: a stage with at least one placeable node gets exactly the entry keyed
\* by its id, on one of these nodes, and nothing else in the mapping changes;
\* a stage without one leaves the mapping as it is; the stage_id of every
\* entry is its key.
C22_OneEntryPerPlaceableStage ==
  [][ StageDone =>
        LET stage == Job.stages[idx]
        IN /\ Placeable(stage, avail) # {} =>
                /\ DOMAIN placements' = DOMAIN placements \cup {stage.id}
                /\ placements'[stage.id].node_name \in Placeable(stage, avail)
                /\ \A sid \in DOMAIN placements \ {stage.id} :
                     placements'[sid] = placements[sid]
           /\ Placeable(stage, avail) = {} => placements' = placements
           /\ \A sid \in DOMAIN placements' : placements'[sid].stage_id = sid ]_vars

\* C22 witness: the CVaR policy placed the three-core stage on n2, the only
\* available node, which has two allocatable cores.
C22_Witness ==
  /\ pc = "place" /\ HasJob /\ req.strategy = "cvar"
  /\ scored.index = 2 /\ scored.cands = <<"n2">>
  /\ Job.stages[2].compute.cpu = 3
  /\ "s2" \in DOMAIN placements /\ placements["s2"].node_name = "n2"
  /\ "s1" \in DOMAIN placements

\* the composite of the claim for node n, times 1000: the weighted capacity
\* fit, resiliency and utilisation headroom minus 0.001 x latency, the latency
\* being the stage latency plus the network delay from the predecessor's node
\* (pl: the decisions written so far) plus the origin delay
CompositeOf(job, stage, n, pl, cm) ==
  LET fmt == choose_exec_format(stage, n)
      network == IF stage.predecessor # NoValue /\ stage.predecessor \in DOMAIN pl
                 THEN compute_network_delay_ms(pl[stage.predecessor].node_name, n)
                 ELSE 0
      origin == IF stage.predecessor = NoValue /\ job.origin # NoValue
                THEN compute_origin_latency(job, n, cm)
                ELSE 0
  IN CapacityWeight * score_capacity_fit(stage, n)
     + ResiliencyWeight * compute_node_score(n)
     + UtilizationWeight * utilization_score(n)
     - (compute_stage_latency_ms(stage, n, fmt) + network + origin)

\* C23: the node the resilient policy writes for a stage has the maximum
\* composite among the stage's candidates, and the exec_format written with
\* it is the format chosen for that node.
C23_MaximumComposite ==
  [][ (StageDone /\ req.strategy = "resilient"
         /\ Placeable(Job.stages[idx], avail) # {}) =>
        LET stage == Job.stages[idx]
            dec == placements'[stage.id]
        IN /\ \A c \in Placeable(stage, avail) :
                CompositeOf(Job, stage, dec.node_name, placements, cluster_manager)
                  >= CompositeOf(Job, stage, c, placements, cluster_manager)
           /\ dec.exec_format = choose_exec_format(stage, dec.node_name) ]_vars

\* C23 witness: with n1 down the candidates were n2 and n3, and the stage
\* went to n3, the later one, as wasm.
C23_Witness ==
  /\ pc = "place" /\ HasJob /\ req.strategy = "resilient"
  /\ scored.index = 1 /\ scored.cands = <<"n2", "n3">>
  /\ "s1" \in DOMAIN placements
  /\ placements["s1"].node_name = "n3" /\ placements["s1"].exec_format = "wasm"
  /\ Job.origin # NoValue

(***************************************************************************)
(* The policies with the draws kept.  SpecCvar is the dry-run planning of   *)
(* SpecObserve's jobs and of a job whose stage runs as wasm everywhere,     *)
(* under both strategies, between availability events of node n1; each      *)
(* stage of the CVaR policy records in call the factors                     *)
(* np.random.lognormal returned for its candidates.                         *)
(***************************************************************************)
\* a stage every node runs in the same format
WasmStage ==
  [id |-> "s1", cpu |-> "1", mem_gb |-> "1", duration_ms |-> "100", gpu_vram_gb |-> "0",
   formats |-> <<"wasm">>, predecessor |-> NoValue]

CvarJobs ==
  ObserveJobs
  \cup { [kind |-> "object", name |-> "job", origin |-> NoValue, stages |-> <<WasmStage>>] }

CvarStageDrawn(noise) ==
  /\ CvarStep(noise)
  /\ call' = [fn |-> "lognormal", draws |-> noise]

InitCvar ==
  /\ InitCommon
  /\ call = NoCall
  /\ via = "api"
  /\ cluster_manager = TRUE

NextCvar ==
  \/ \E et \in {"node_down", "node_up"} : Observe(et, "n1")
  \/ pc = "idle" /\ \E js \in CvarJobs, st \in Strategies : PlanRequest(js, st, TRUE)
  \/ ResilientStage
  \/ /\ pc = "place" /\ req.strategy = "cvar" /\ idx <= Len(Job.stages)
     /\ \E noise \in [Range(Cvar_candidate_nodes(Job.stages[idx], avail)) -> NoiseDraws] :
          CvarStageDrawn(noise)
  \/ \E pid \in PlanIds : PlanFinish(pid, "ok")
  \/ NextRequest

SpecCvar == InitCvar /\ [][NextCvar]_vars

\* the adjusted cost of the claim for candidate n, as a fraction times 1000:
\* the tail cost of the tentative plan tp under the draws, times
\* 1 + risk_weight * (1 - resiliency(n))
AdjustedOf(job, tp, draws, n, cm) ==
  LET cvar == sample_cost(job, tp, draws, cm)
  IN [num |-> cvar.num * (1000 + RiskWeightTenths * (100 - compute_node_score(n))),
      den |-> cvar.den]

\* C24: the node the CVaR policy writes for a stage has the least adjusted
\* cost among the stage's candidates, each candidate being costed on its
\* tentative plan (the decisions so far plus the candidate) under the draws
\* of that stage.
C24_MinimumAdjusted ==
  [][ (StageDone /\ req.strategy = "cvar"
         /\ Placeable(Job.stages[idx], avail) # {}) =>
        LET stage == Job.stages[idx]
            chosen == placements'[stage.id].node_name
            tentative == scored'.tentative
            noise == call'.draws
        IN /\ chosen \in DOMAIN tentative
           /\ DOMAIN tentative = Placeable(stage, avail)
           /\ \A c \in DOMAIN tentative :
                /\ tentative[c] = candidate_plan(placements, stage, c)
                /\ ~FracLess(AdjustedOf(Job, tentative[c], noise[c], c, cluster_manager),
                             AdjustedOf(Job, tentative[chosen], noise[chosen],
                                        chosen, cluster_manager)) ]_vars

\* C24 witness: with n1 down the candidates of the second stage were n2 and
\* n3; n2 drew the smaller factors and n3 the larger, and the stage still
\* went to n3, whose adjusted cost is lower.
C24_Witness ==
  /\ pc = "place" /\ HasJob /\ req.strategy = "cvar"
  /\ scored.index = 2 /\ scored.cands = <<"n2", "n3">>
  /\ call # NoCall
  /\ \A r \in 1..NumRuns : call.draws["n2"][r] = 9 /\ call.draws["n3"][r] = 11
  /\ "s1" \in DOMAIN placements
  /\ "s2" \in DOMAIN placements /\ placements["s2"].node_name = "n3"

(***************************************************************************)
(* Stages whose predecessor has no decision.  SpecUnplaced is the dry-run   *)
(* planning, under the resilient strategy, of two-stage jobs whose second   *)
(* stage names a predecessor that was placed, was dropped for want of a     *)
(* candidate (no node has the cores, or none has the memory), is declared   *)
(* after it or is not a stage of the job, with and without an origin,       *)
(* between availability events of node n1.                                  *)
(***************************************************************************)
\* a first stage no seeded node has the cores for
HeavyStage ==
  [id |-> "s1", cpu |-> "16", mem_gb |-> "1", duration_ms |-> "100", gpu_vram_gb |-> "0",
   formats |-> <<"native", "wasm">>, predecessor |-> NoValue]

\* a first stage no seeded node has the memory for
MemStage ==
  [id |-> "s1", cpu |-> "1", mem_gb |-> "16", duration_ms |-> "100", gpu_vram_gb |-> "0",
   formats |-> <<"native", "wasm">>, predecessor |-> NoValue]

UnplacedJobs ==
  { [kind |-> "object", name |-> "job", origin |-> o, stages |-> st] :
      o \in {NoValue, "edge-microdc"},
      st \in { <<PlainStage, WideStage>>, <<HeavyStage, WideStage>>,
               <<MemStage, WideStage>>, <<WideStage, PlainStage>>, <<WideStage>> } }

InitUnplaced ==
  /\ InitCommon
  /\ call = NoCall
  /\ via = "api"
  /\ cluster_manager = TRUE

NextUnplaced ==
  \/ \E et \in {"node_down", "node_up"} : Observe(et, "n1")
  \/ pc = "idle" /\ \E js \in UnplacedJobs : PlanRequest(js, "resilient", TRUE)
  \/ ResilientStage
  \/ \E pid \in PlanIds : PlanFinish(pid, "ok")
  \/ NextRequest

SpecUnplaced == InitUnplaced /\ [][NextUnplaced]_vars

\* the stage being placed names a predecessor that has no decision so far
PredecessorUnplaced ==
  /\ Job.stages[idx].predecessor # NoValue
  /\ Job.stages[idx].predecessor \notin DOMAIN placements

\* C25: a stage whose predecessor has not been placed so far in the call is
\* still placed by the resilient policy when it has a candidate, and the
\* latency of each of its candidates is the stage latency alone: no
\* network-delay term and no origin delay.
C25_UnplacedPredecessorNoDelay ==
  [][ (StageDone /\ req.strategy = "resilient" /\ PredecessorUnplaced) =>
        LET stage == Job.stages[idx]
        IN /\ Placeable(stage, avail) # {} => stage.id \in DOMAIN placements'
           /\ Range(scored'.cands) = Placeable(stage, avail)
           /\ \A c \in Placeable(stage, avail) :
                scored'.latency[c] =
                  compute_stage_latency_ms(stage, c, choose_exec_format(stage, c)) ]_vars

\* C25 witness: in a job with an origin the first stage was dropped, and the
\* second stage, which names it as predecessor, was placed.
C25_Witness ==
  /\ pc = "place" /\ HasJob /\ req.strategy = "resilient"
  /\ Job.origin # NoValue
  /\ Len(Job.stages) = 2 /\ Job.stages[2].predecessor = "s1"
  /\ scored.index = 2 /\ scored.cands # <<>>
  /\ "s1" \notin DOMAIN placements
  /\ "s2" \in DOMAIN placements

\* C26, as claimed: a finished stage leaves every decision written before it
\* in the mapping as it was, adding at most the decision of its own.
C26_AsClaimed ==
  [][ StageDone =>
        /\ \A sid \in DOMAIN placements :
             sid \in DOMAIN placements' /\ placements'[sid] = placements[sid]
        /\ DOMAIN placements' \subseteq DOMAIN placements \cup {Job.stages[idx].id} ]_vars

\* C27: for every non-empty sample list and every alpha the tail of the
\* samples at or above the quantile is not empty, so the estimate is the
\* mean of the tail and never the quantile fallback, and it lies between the
\* quantile and the largest sample.
C27_TailNeverEmpty ==
  (call.fn = "tail" /\ call.done)
  => LET q == QuantileTimes100(call.samples, call.alpha)
     IN /\ call.cvar.tail > 0
        /\ \E i \in 1..Len(call.samples) : 100 * call.samples[i] >= q
        /\ q * call.cvar.den <= 100 * call.cvar.num
        /\ call.cvar.num <= call.cvar.den * MaxSample(call.samples)

\* C27 witness: the estimate with alpha = 0.5 of two different samples: the
\* quantile lies between them and the tail is the larger one.
C27_Witness ==
  /\ call.fn = "tail" /\ call.done
  /\ call.alpha = 50
  /\ call.samples = <<110, 90>>
  /\ QuantileTimes100(call.samples, call.alpha) = 100 * 100
  /\ call.cvar.tail = 1 /\ call.cvar.num = 110 * call.cvar.den

\* the position of node n in the enumeration order of list_nodes()
PositionOf(n) == CHOOSE i \in 1..Len(NodeOrder) : NodeOrder[i] = n

\* C28: of the candidates of a stage that share the best score, the composite
\* of the resilient policy or the adjusted cost of the CVaR policy, the one
\* written is the first in the enumeration order of list_nodes().
C28_FirstTiedCandidateKept ==
  [][ (StageDone /\ Placeable(Job.stages[idx], avail) # {}) =>
        LET stage == Job.stages[idx]
            chosen == placements'[stage.id].node_name
            Score(c) ==
              IF req.strategy = "resilient"
              THEN [num |-> CompositeOf(Job, stage, c, placements, cluster_manager),
                    den |-> 1]
              ELSE AdjustedOf(Job, candidate_plan(placements, stage, c),
                              call'.draws[c], c, cluster_manager)
            Tied(c) == ~FracLess(Score(c), Score(chosen)) /\ ~FracLess(Score(chosen), Score(c))
        IN \A c \in Placeable(stage, avail) :
             Tied(c) => PositionOf(chosen) <= PositionOf(c) ]_vars

\* C28 witness: n1 and n3 run the wasm stage alike and drew the same factors,
\* so their adjusted costs are equal, and the stage went to n1.
C28_Witness ==
  /\ pc = "place" /\ HasJob /\ req.strategy = "cvar"
  /\ Job.stages[1].constraints.formats = <<"wasm">>
  /\ scored.index = 1 /\ scored.cands = <<"n1", "n2", "n3">>
  /\ call # NoCall /\ DOMAIN call.draws = {"n1", "n2", "n3"}
  /\ call.draws["n1"] = call.draws["n3"]
  /\ ~FracLess(AdjustedOf(Job, scored.tentative["n1"], call.draws["n1"], "n1", cluster_manager),
               AdjustedOf(Job, scored.tentative["n3"], call.draws["n3"], "n3", cluster_manager))
  /\ ~FracLess(AdjustedOf(Job, scored.tentative["n3"], call.draws["n3"], "n3", cluster_manager),
               AdjustedOf(Job, scored.tentative["n1"], call.draws["n1"], "n1", cluster_manager))
  /\ "s1" \in DOMAIN placements /\ placements["s1"].node_name = "n1"

\* a plan request has been answered with a plan
PlanAnswered == pc = "done" /\ HasJob /\ resp.status = 200 /\ resp.raised = NoValue

\* the submission carries the plan id and the placements of the answer
SubmittedAsAnswered ==
  /\ submitted.called
  /\ submitted.plan_id = resp.plan_id
  /\ submitted.placements = resp.placements

\* C29, as claimed: a request with dry_run never reaches
\* actuator.submit_plan, and every answered request without dry_run
\* submitted the plan of the answer.
C29_AsClaimed ==
  pc = "done" =>
    /\ req.dry_run => ~submitted.called
    /\ (PlanAnswered /\ ~req.dry_run) => SubmittedAsAnswered

\* C29, amended: a request with dry_run never reaches actuator.submit_plan;
\* an answered request without dry_run submitted the plan of the answer when
\* an actuator exists (the API always has one, the offline client only when
\* it was built with a cluster manager), and submitted nothing otherwise.
C29_SubmitsWhenActuatorExists ==
  pc = "done" =>
    /\ req.dry_run => ~submitted.called
    /\ (PlanAnswered /\ ~req.dry_run /\ (via = "api" \/ cluster_manager))
         => SubmittedAsAnswered
    /\ (via = "offline" /\ ~cluster_manager) => ~submitted.called

\* C29 witness: the API answered a request without dry_run with a plan of
\* two stages and submitted it; the submission failed, which changes nothing.
C29_Witness ==
  /\ PlanAnswered /\ via = "api" /\ ~req.dry_run
  /\ DOMAIN resp.placements = {"s1", "s2"}
  /\ SubmittedAsAnswered /\ submitted.outcome = "failed"

(***************************************************************************)
(* dt/policy/selector.py.  SpecSelect is one call of                        *)
(* PolicySelector.select_policy_for_job on a selector whose failure list,   *)
(* clock and store are drawn from small sets.  Times are in seconds,        *)
(* utilisations in percent.                                                 *)
(***************************************************************************)
\* the keys of self.policies
KnownPolicies == {"greedy", "resilient", "cvar"}

failure_window_seconds == 300

\* time.time() at the call
SelectNow == 1000

\* the timestamps record_failure may have left in recent_failures: now, ten
\* seconds ago, exactly one window ago, longer ago
FailureLists ==
  { <<>>, <<SelectNow>>, <<SelectNow - 10>>, <<SelectNow - 300>>, <<SelectNow - 400>>,
    <<SelectNow - 400, SelectNow - 10>>, <<SelectNow - 400, SelectNow - 300>> }

\* a node's telemetry as the selector reads it; NoTel is a node without tel
NoTel == [cpu_util |-> -1, mem_util |-> -1]

Telemetries ==
  { NoTel, [cpu_util |-> 75, mem_util |-> 10], [cpu_util |-> 70, mem_util |-> 80],
    [cpu_util |-> 10, mem_util |-> 100] }

\* what state.list_nodes() may hold
TelemetryLists == UNION { [1..k -> Telemetries] : k \in 0..2 }

ForcePolicies == {NoValue, "greedy", "resilient", "cvar", "random"}

DeadlineValues == {1000, 4999, 5000, 60000}

\* mutant: nothing is pruned
prune_nothing(failures, now) == failures

\* _prune_old_failures: the failures younger than the window are kept
prune_old_failures(failures, now) ==
  SelectSeq(failures, LAMBDA t : t > now - failure_window_seconds)

\* _has_recent_failures, after pruning
has_recent_failures(failures, now) == Len(prune_old_failures(failures, now)) > 0

\* _average_utilization as a fraction of percents: 0 for an empty store, a
\* node without telemetry counts 0
average_utilization(nodes) ==
  IF Len(nodes) = 0 THEN [num |-> 0, den |-> 1]
  ELSE [num |-> SumSeq([i \in 1..Len(nodes) |->
                          IF nodes[i] = NoTel THEN 0
                          ELSE Max2(nodes[i].cpu_util, nodes[i].mem_util)]),
        den |-> Len(nodes)]

\* mutant: the utilisation rule is tried before the deadline and origin rule
select_policy_utilisation_first(deadline_ms, origin, force_policy, failures, now, nodes) ==
  IF force_policy # NoValue /\ force_policy \in KnownPolicies THEN force_policy
  ELSE IF has_recent_failures(failures, now) THEN "resilient"
  ELSE IF average_utilization(nodes).num > 75 * average_utilization(nodes).den THEN "cvar"
  ELSE IF deadline_ms < 5000 \/ origin # NoValue THEN "resilient"
  ELSE "greedy"

\* select_policy_for_job: the name of the policy returned
select_policy_for_job(deadline_ms, origin, force_policy, failures, now, nodes) ==
  IF force_policy # NoValue /\ force_policy \in KnownPolicies THEN force_policy
  ELSE IF has_recent_failures(failures, now) THEN "resilient"
  ELSE IF deadline_ms < 5000 \/ origin # NoValue THEN "resilient"
  ELSE IF average_utilization(nodes).num > 75 * average_utilization(nodes).den THEN "cvar"
  ELSE "greedy"

InitSelect ==
  /\ InitCommon
  /\ via = "api"
  /\ cluster_manager = TRUE
  /\ call \in { [fn |-> "select", deadline_ms |-> d, origin |-> o, force_policy |-> f,
                  failures |-> fl, recent_failures |-> fl, nodes |-> tl,
                  done |-> FALSE,
                  policy |-> NoValue] :
                  d \in DeadlineValues, o \in {NoValue, "edge-microdc"},
                  f \in ForcePolicies, fl \in FailureLists, tl \in TelemetryLists }

\* the call: failures is the list the selector held before it,
\* recent_failures the list after it, pruned unless the force_policy test
\* returned first
SelectCall ==
  /\ call.fn = "select" /\ ~call.done
  /\ call' = [call EXCEPT
       !.done = TRUE,
       !.policy = select_policy_for_job(call.deadline_ms, call.origin, call.force_policy,
                                        call.failures, SelectNow, call.nodes),
       !.recent_failures =
          IF call.force_policy # NoValue /\ call.force_policy \in KnownPolicies
          THEN call.recent_failures
          ELSE prune_old_failures(call.recent_failures, SelectNow)]
  /\ UNCHANGED <<via, jobs, client_plans, observed, record_resp, verify_resp,
                 first_recorded>>
  /\ UNCHANGED <<avail, cluster_manager, pc, req, idx, placements, prev_node_for, resp,
                 submitted, observe_resp, np_random, caller_seed, seed_runs,
                 snap, downAll, scored, writer>>

SpecSelect == InitSelect /\ [][SelectCall]_vars

\* the rules of the claim, each on the inputs of the call
ForcedKnown == call.force_policy \in {"greedy", "resilient", "cvar"}

AnyRecentFailure ==
  \E i \in 1..Len(call.failures) :
    SelectNow - call.failures[i] < failure_window_seconds

UrgentOrLocal == call.deadline_ms < 5000 \/ call.origin # NoValue

\* the mean over the nodes of max(cpu_util, mem_util) exceeds 75 percent
HighUtilisation ==
  /\ Len(call.nodes) > 0
  /\ SumSeq([i \in 1..Len(call.nodes) |->
               IF call.nodes[i] = NoTel THEN 0
               ELSE IF call.nodes[i].cpu_util >= call.nodes[i].mem_util
                    THEN call.nodes[i].cpu_util ELSE call.nodes[i].mem_util])
       > 75 * Len(call.nodes)

\* C30: select_policy_for_job applies a fixed precedence: a known
\* force_policy, else resilient after a recent failure, else resilient for a
\* deadline under 5000 ms or a job with an origin, else cvar above 75 percent
\* average utilisation, else greedy; an unknown force_policy changes nothing.
C30_SelectorPrecedence ==
  (call.fn = "select" /\ call.done) =>
    /\ ForcedKnown => call.policy = call.force_policy
    /\ (~ForcedKnown /\ AnyRecentFailure) => call.policy = "resilient"
    /\ (~ForcedKnown /\ ~AnyRecentFailure /\ UrgentOrLocal) => call.policy = "resilient"
    /\ (~ForcedKnown /\ ~AnyRecentFailure /\ ~UrgentOrLocal /\ HighUtilisation)
         => call.policy = "cvar"
    /\ (~ForcedKnown /\ ~AnyRecentFailure /\ ~UrgentOrLocal /\ ~HighUtilisation)
         => call.policy = "greedy"
    /\ call.force_policy = "random"
         => call.policy = select_policy_for_job(call.deadline_ms, call.origin, NoValue,
                                                call.failures, SelectNow, call.nodes)

\* C30 witness: an unknown force_policy, only a failure older than the
\* window, which the call pruned, a job with an origin on a store above 75
\* percent: resilient, by the origin rule, not cvar.
C30_Witness ==
  /\ call.fn = "select" /\ call.done
  /\ call.force_policy = "random"
  /\ call.failures = <<SelectNow - 400>> /\ call.recent_failures = <<>>
  /\ call.deadline_ms = 60000 /\ call.origin = "edge-microdc"
  /\ call.nodes = <<[cpu_util |-> 70, mem_util |-> 80], [cpu_util |-> 10, mem_util |-> 100]>>
  /\ call.policy = "resilient"

(***************************************************************************)
(* A PolicySelector over time.  SpecFailures is a selector whose clock      *)
(* advances between calls of record_failure and select_policy_for_job; call *)
(* holds the selector: the clock, recent_failures (the timestamps of its    *)
(* records; the node of a record is never read), and the last call with     *)
(* its arguments and result.                                                *)
(***************************************************************************)
\* the most failure records kept at once, and the end of the clock
MaxFailures == 3

MaxTime == 600

\* what time.time() may advance by between two calls
TickSizes == {50, 100, 300}

\* the stores of the selections: empty, and one node above 75 percent
FailureStores == { <<>>, <<[cpu_util |-> 10, mem_util |-> 100]>> }

InitFailures ==
  /\ InitCommon
  /\ via = "api"
  /\ cluster_manager = TRUE
  /\ call = [fn |-> "selector", now |-> 0, recent_failures |-> <<>>, op |-> "init",
             before |-> <<>>, deadline_ms |-> 60000, force_policy |-> NoValue,
             nodes |-> <<>>, policy |-> NoValue]

\* everything but the selector
selectorFrame ==
  <<via, jobs, client_plans, observed, record_resp, verify_resp, first_recorded,
    avail, cluster_manager, pc, req, idx, placements, prev_node_for, resp,
    submitted, observe_resp, np_random, caller_seed, seed_runs,
    snap, downAll, scored, writer>>

\* time passes
SelectorTick(d) ==
  /\ call.fn = "selector" /\ call.now + d <= MaxTime
  /\ call' = [call EXCEPT !.now = call.now + d, !.op = "tick",
                          !.before = call.recent_failures]
  /\ UNCHANGED selectorFrame

\* record_failure: the record is appended with the time of the call, then
\* the list is pruned
RecordFailure ==
  /\ call.fn = "selector" /\ Len(call.recent_failures) < MaxFailures
  /\ call' = [call EXCEPT
       !.op = "record_failure",
       !.before = call.recent_failures,
       !.recent_failures = prune_old_failures(Append(call.recent_failures, call.now),
                                              call.now)]
  /\ UNCHANGED selectorFrame

\* select_policy_for_job on the selector: a known force_policy returns
\* before the failure list is looked at, else the list is pruned first
SelectPolicy(d, f, tl) ==
  /\ call.fn = "selector"
  /\ call' = [call EXCEPT
       !.op = "select",
       !.before = call.recent_failures,
       !.deadline_ms = d, !.force_policy = f, !.nodes = tl,
       !.policy = select_policy_for_job(d, NoValue, f, call.recent_failures,
                                        call.now, tl),
       !.recent_failures =
          IF f # NoValue /\ f \in KnownPolicies
          THEN call.recent_failures
          ELSE prune_old_failures(call.recent_failures, call.now)]
  /\ UNCHANGED selectorFrame

NextFailures ==
  \/ \E d \in TickSizes : SelectorTick(d)
  \/ RecordFailure
  \/ \E d \in {1000, 60000}, f \in {NoValue, "greedy", "random"}, tl \in FailureStores :
       SelectPolicy(d, f, tl)

SpecFailures == InitFailures /\ [][NextFailures]_vars

\* the last selection was not decided by force_policy
Unforced == call.force_policy \notin {"greedy", "resilient", "cvar"}

\* every record of the list is younger than the window at the selector's clock
AllYoung(failures) ==
  \A i \in 1..Len(failures) : call.now - failures[i] < failure_window_seconds

\* some record of the list is younger than the window
SomeYoung(failures) ==
  \E i \in 1..Len(failures) : call.now - failures[i] < failure_window_seconds

\* what an unforced selection returns on a selector without failure records
WithoutFailures ==
  IF call.deadline_ms < 5000 THEN "resilient"
  ELSE IF call.nodes # <<>> THEN "cvar"
  ELSE "greedy"

\* C31, as claimed: an unforced selection less than 300 seconds after a
\* failure record returns resilient, one with only expired records returns
\* what it returns without records, and after every record_failure and every
\* selection recent_failures holds only records younger than the window.
C31_AsClaimed ==
  (call.fn = "selector" /\ call.op \in {"select", "record_failure"}) =>
    /\ (call.op = "select" /\ Unforced /\ SomeYoung(call.before))
         => call.policy = "resilient"
    /\ (call.op = "select" /\ Unforced /\ ~SomeYoung(call.before))
         => call.policy = WithoutFailures
    /\ AllYoung(call.recent_failures)

\* C31, amended: the same, the pruning being that of every record_failure
\* and of every selection that force_policy does not decide; a forced
\* selection leaves recent_failures as it was.
C31_PrunedUnlessForced ==
  (call.fn = "selector" /\ call.op \in {"select", "record_failure"}) =>
    /\ (call.op = "select" /\ Unforced /\ SomeYoung(call.before))
         => call.policy = "resilient"
    /\ (call.op = "select" /\ Unforced /\ ~SomeYoung(call.before))
         => call.policy = WithoutFailures
    /\ (call.op = "record_failure" \/ Unforced) => AllYoung(call.recent_failures)
    /\ (call.op = "select" /\ ~Unforced) => call.recent_failures = call.before

\* C31 witness: a failure recorded at 0 and one at 100; at 350 an unforced
\* selection on a busy store pruned the first, kept the second and returned
\* resilient.
C31_Witness ==
  /\ call.fn = "selector" /\ call.op = "select" /\ Unforced
  /\ call.now = 350
  /\ call.before = <<0, 100>> /\ call.recent_failures = <<100>>
  /\ call.deadline_ms = 60000 /\ call.nodes # <<>>
  /\ call.policy = "resilient"

(***************************************************************************)
(* PolicySelector.record_policy_performance.  SpecPerformance is a selector *)
(* that records one outcome after another under two policy names; call      *)
(* holds policy_performance, and in log every record ever passed in, per    *)
(* name and in call order.  The k-th record of a name completes in k        *)
(* milliseconds and succeeds when k is odd, which tells the records apart.  *)
(***************************************************************************)
\* the records kept per policy name
HistoryLimit == 100

\* the most calls of one run
MaxCalls == 103

PerformanceNames == {"greedy", "cvar"}

\* the record of the k-th call for a name
PerformanceRecord(k) == [success |-> k % 2 = 1, completion_time_ms |-> k]

\* mutant: the oldest 100 records are kept
record_policy_performance_keep_first(history, policy_name, rec) ==
  LET appended == Append(history[policy_name], rec)
  IN [history EXCEPT ![policy_name] =
        IF Len(appended) > HistoryLimit THEN SubSeq(appended, 1, HistoryLimit)
        ELSE appended]

\* record_policy_performance: the record is appended to the name's list,
\* and a list longer than 100 is cut to its last 100
record_policy_performance(history, policy_name, rec) ==
  LET appended == Append(history[policy_name], rec)
  IN [history EXCEPT ![policy_name] =
        IF Len(appended) > HistoryLimit
        THEN SubSeq(appended, Len(appended) - HistoryLimit + 1, Len(appended))
        ELSE appended]

InitPerformance ==
  /\ InitCommon
  /\ via = "api"
  /\ cluster_manager = TRUE
  /\ call = [fn |-> "performance",
             policy_performance |-> [n \in PerformanceNames |-> <<>>],
             log |-> [n \in PerformanceNames |-> <<>>]]

CallsMade == Len(call.log["greedy"]) + Len(call.log["cvar"])

RecordPerformance(policy_name) ==
  /\ call.fn = "performance" /\ CallsMade < MaxCalls
  /\ LET rec == PerformanceRecord(Len(call.log[policy_name]) + 1)
     IN call' = [call EXCEPT
          !.policy_performance =
             record_policy_performance(call.policy_performance, policy_name, rec),
          !.log = [call.log EXCEPT ![policy_name] = Append(call.log[policy_name], rec)]]
  /\ UNCHANGED selectorFrame

NextPerformance == \E n \in PerformanceNames : RecordPerformance(n)

SpecPerformance == InitPerformance /\ [][NextPerformance]_vars

\* the last k records of a sequence, all of it when it is shorter
LastRecords(s, k) == IF Len(s) <= k THEN s ELSE SubSeq(s, Len(s) - k + 1, Len(s))

\* C32: after any sequence of record_policy_performance calls the history of
\* each policy name has at most 100 records and is the most recent records
\* passed in for that name, in call order; a call for one name leaves the
\* history of the other as it was.
C32_HistoryIsLastHundred ==
  [][ call.fn = "performance" =>
        \A n \in PerformanceNames :
          /\ Len(call.policy_performance'[n]) <= 100
          /\ call.policy_performance'[n] = LastRecords(call.log'[n], 100)
          /\ call.log'[n] = call.log[n]
               => call.policy_performance'[n] = call.policy_performance[n] ]_vars

\* C32 witness: 102 records were passed in for cvar and one for greedy; the
\* history of cvar starts with the third and ends with the last.
C32_Witness ==
  /\ call.fn = "performance"
  /\ Len(call.log["cvar"]) = 102 /\ Len(call.log["greedy"]) = 1
  /\ Len(call.policy_performance["cvar"]) = 100
  /\ call.policy_performance["cvar"][1].completion_time_ms = 3
  /\ call.policy_performance["cvar"][100].completion_time_ms = 102
  /\ Len(call.policy_performance["greedy"]) = 1

(***************************************************************************)
(* dt/chaos_runner.py.  SpecSaturation is one call of                       *)
(* ChaosScenarioRunner.run_cpu_saturation.  Node objects live on a heap and *)
(* a state is the list of the addresses of its nodes, so that a copy that   *)
(* shares node objects can be told from one that does not; call holds the   *)
(* heap, the runner's state, the saturation level in percent and, after the *)
(* call, the saturated state.  The two score_plan calls and the dict made   *)
(* of their metrics read the states only and are left out.                  *)
(***************************************************************************)
\* the addresses of the runner's node objects, in list_nodes() order
RunnerState == <<1, 2, 3>>

UtilValues == {0, 50, 95, 100}

\* saturation_level * 100
SaturationLevels == {-10, 0, 50, 90, 100, 150}

\* mutant: copy.copy, a state that shares the node objects
copy_shallow(heap, state) == [heap |-> heap, state |-> state]

\* copy.deepcopy(self.state): every node object is copied to a fresh address
deepcopy(heap, state) ==
  LET fresh == [i \in 1..Len(state) |-> Len(heap) + i]
  IN [heap |-> heap \o [i \in 1..Len(state) |-> heap[state[i]]],
      state |-> fresh]

\* _saturate_state: the cpu_util of every node of the clone is raised to the
\* level, capped at 100
saturate_state(heap, state, level) ==
  LET clone == deepcopy(heap, state)
  IN [heap |-> [a \in DOMAIN clone.heap |->
                  IF a \in Range(clone.state)
                  THEN [clone.heap[a] EXCEPT
                          !.cpu_util = Min2(100, Max2(clone.heap[a].cpu_util, level))]
                  ELSE clone.heap[a]],
      state |-> clone.state]

InitSaturation ==
  /\ InitCommon
  /\ via = "api"
  /\ cluster_manager = TRUE
  /\ call \in { [fn |-> "saturation", heap |-> h, state |-> RunnerState, level |-> l,
                  done |-> FALSE, before |-> <<>>, saturated |-> <<>>] :
                  h \in [1..Len(RunnerState) ->
                           [cpu_util : UtilValues, available : BOOLEAN]],
                  l \in SaturationLevels }

RunCpuSaturation ==
  /\ call.fn = "saturation" /\ ~call.done
  /\ LET s == saturate_state(call.heap, call.state, call.level)
     IN call' = [call EXCEPT !.done = TRUE, !.before = call.heap,
                             !.heap = s.heap, !.saturated = s.state]
  /\ UNCHANGED selectorFrame

SpecSaturation == InitSaturation /\ [][RunCpuSaturation]_vars

\* C33: run_cpu_saturation leaves every node of the runner's own state with
\* the cpu_util and availability it had; the saturated state is made of
\* other node objects, each with the availability of its original and the
\* cpu_util min(100, max(original, level)), never below the original.
C33_SaturationOnCopyOnly ==
  (call.fn = "saturation" /\ call.done) =>
    /\ \A i \in 1..Len(call.state) :
         call.heap[call.state[i]] = call.before[call.state[i]]
    /\ Range(call.saturated) \cap Range(call.state) = {}
    /\ Len(call.saturated) = Len(call.state)
    /\ \A i \in 1..Len(call.state) :
         LET original == call.before[call.state[i]]
             copied == call.heap[call.saturated[i]]
             raised == IF original.cpu_util >= call.level
                       THEN original.cpu_util ELSE call.level
         IN /\ copied.cpu_util = (IF raised > 100 THEN 100 ELSE raised)
            /\ copied.cpu_util >= original.cpu_util
            /\ copied.available = original.available

\* C33 witness: at level 0.9 a node at 50 percent is at 90 in the saturated
\* state and still at 50 in the runner's, and a node at 95 stays at 95.
C33_Witness ==
  /\ call.fn = "saturation" /\ call.done /\ call.level = 90
  /\ call.before[1].cpu_util = 50 /\ call.before[2].cpu_util = 95
  /\ ~call.before[3].available
  /\ call.heap[call.state[1]].cpu_util = 50
  /\ call.heap[call.saturated[1]].cpu_util = 90
  /\ call.heap[call.saturated[2]].cpu_util = 95

====
